---- MODULE Spec2Model ----
(***************************************************************************)
(* Manifest-based incremental synchronisation and restore engine           *)
(* (gateway/sync.ts as listed in docs/summary/006-cli-name-compat.md,      *)
(* lines 211-541, with gateway/r2.ts and gateway/utils.ts).                *)
(*                                                                         *)
(* The local filesystem and the remote store are modelled as directory     *)
(* trees: a tree maps a file name to a file record, and a file record      *)
(* carries its modification time m (0 = the file does not exist), its      *)
(* size s, a content identifier c, and, for manifest files, the manifest   *)
(* entries man.  Time is a logical clock of milliseconds-like ticks.       *)
(***************************************************************************)
EXTENDS Integers, Sequences, FiniteSets, TLC

\* ---------------------------------------------------------------- bounds
MaxClock == 8
MaxEdits == 1
MaxContent == 2
HistLen == 2
MaxRestarts == 1
MaxFaults == 1
\* waitForProcess: timeout and polling interval, in units of 250 ms
MaxTimeoutMs == 4
MaxPollIntervalMs == 2

\* length of the output of `date -Iseconds`
TsSize == 25

\* ------------------------------------------------------------- universe
LocalDirs == {"clawdbot", "openclaw", "skills", "clawd"}
RemoteDirs == {"root", "openclaw", "clawdbot", "skills", "workspace", "workspace-core"}

Names ==
  { ".last-sync", ".restored-from-r2", ".sync-manifest.json", "clawdbot.json",
    "gw.log", "IDENTITY.md", "manifest.json", "memory", "MEMORY.md",
    "memory/a.txt", "openclaw.json", "s1.md", "scratch/tmp.bin", "SOUL.md",
    "USER.md" }

NoFile == [m |-> 0, s |-> 0, c |-> 0, man |-> <<>>, dir |-> FALSE]
EmptyTree == [n \in Names |-> NoFile]
Present(f) == f.m > 0

UserFile(content, now) == [m |-> now, s |-> content, c |-> content, man |-> <<>>, dir |-> FALSE]
TimestampFile(now) == [m |-> now, s |-> TsSize, c |-> now, man |-> <<>>, dir |-> FALSE]
ManifestFile(entries, now) ==
  [m |-> now, s |-> Len(entries), c |-> 0, man |-> entries, dir |-> FALSE]
\* a directory that exists under this very name (stat.isDirectory())
Directory(now) == [m |-> now, s |-> 0, c |-> 0, man |-> <<>>, dir |-> TRUE]

\* the three names the agent CLI has had, newest first
CLI_BIN_CANDIDATES == <<"openclawbot-online", "openclaw", "clawdbot">>
\* the binaries of the image the other specifications run in
ImageBinaries == {"clawdbot"}

VARIABLES
  loc,      \* local filesystem: LocalDirs -> Names -> file
  rem,      \* remote store seen through the mount: RemoteDirs -> Names -> file
  rdirs,    \* remote directories that exist
  linked,   \* /root/.openclaw is a symlink to /root/.clawdbot (start-moltbot.sh)
  creds,    \* the three R2 credentials are all set
  mounted,  \* the mount table shows the s3fs mount
  clock,    \* logical time of the next write
  edits,    \* number of local edits made so far
  restarts, \* number of container restarts so far
  faults,   \* number of injected environment failures so far
  calls,    \* external invocations of the last sync/restore call, in order
  restoredHere, \* history: a restore ran all its steps to completion in this container
  hist,     \* the last HistLen operations and their results
  installed, \* the agent CLI binaries on the container's PATH
  inflight  \* the triggers whose sync attempt has been entered and has not returned

vars == <<loc, rem, rdirs, linked, creds, mounted, clock, edits, restarts, faults, calls,
          restoredHere, hist, installed, inflight>>

\* ------------------------------------------------------ path resolution
\* /root/.openclaw resolves to /root/.clawdbot when it is the symlink
LDir(d) == IF linked /\ d = "openclaw" THEN "clawdbot" ELSE d
LFile(l, d, n) == l[LDir(d)][n]
LWrite(l, d, n, f) == [l EXCEPT ![LDir(d)][n] = f]

\* ------------------------------------------------------- probes (sync.ts)
\* mutant: the marker probe always answers "restored"
HasRestoreMarker_Always(l) == TRUE

\* test -f /root/.clawdbot/.restored-from-r2 && echo "restored"
HasRestoreMarker(l) == Present(l["clawdbot"][".restored-from-r2"])

\* resolveConfigDir: current name first, then the legacy name, else null
ResolveConfigDir(l) ==
  IF Present(LFile(l, "openclaw", "openclaw.json")) THEN "openclaw"
  ELSE IF Present(l["clawdbot"]["clawdbot.json"]) THEN "clawdbot"
  ELSE "none"

\* mutant: the initial value of configDir is kept when neither file is found
SyncConfigDir_DefaultOpenclaw(l) ==
  IF Present(LFile(l, "openclaw", "openclaw.json")) THEN "openclaw"
  ELSE IF Present(l["clawdbot"]["clawdbot.json"]) THEN "clawdbot"
  ELSE "openclaw"

\* the sanity check of syncToR2: same two probes in one shell command
SyncConfigDir(l) ==
  IF Present(LFile(l, "openclaw", "openclaw.json")) THEN "openclaw"
  ELSE IF Present(l["clawdbot"]["clawdbot.json"]) THEN "clawdbot"
  ELSE "none"

\* mutant: the legacy directory is probed before the legacy file name in the
\* current directory
ResolveLayout_LegacyDirFirst(r) ==
  IF Present(r["openclaw"]["openclaw.json"]) THEN "openclaw"
  ELSE IF Present(r["clawdbot"]["clawdbot.json"]) THEN "clawdbot"
  ELSE IF Present(r["openclaw"]["clawdbot.json"]) THEN "openclaw-legacy"
  ELSE IF Present(r["root"]["clawdbot.json"]) THEN "legacy"
  ELSE "none"

\* mutant: the flat legacy layout is assumed when no probe matches
ResolveLayout_DefaultLegacy(r) ==
  IF Present(r["openclaw"]["openclaw.json"]) THEN "openclaw"
  ELSE IF Present(r["openclaw"]["clawdbot.json"]) THEN "openclaw-legacy"
  ELSE IF Present(r["clawdbot"]["clawdbot.json"]) THEN "clawdbot"
  ELSE "legacy"

\* the layout probe of restoreFromR2: first match wins
ResolveLayout(r) ==
  IF Present(r["openclaw"]["openclaw.json"]) THEN "openclaw"
  ELSE IF Present(r["openclaw"]["clawdbot.json"]) THEN "openclaw-legacy"
  ELSE IF Present(r["clawdbot"]["clawdbot.json"]) THEN "clawdbot"
  ELSE IF Present(r["root"]["clawdbot.json"]) THEN "legacy"
  ELSE "none"

\* mountR2Storage: already mounted, or the attach (or its re-check) succeeds
MountR2Storage(mt, mountOk) == mt \/ mountOk

\* timestamp.match(/^\d{4}-\d{2}-\d{2}/) on the trimmed file content
IsDateLike(f) == Present(f) /\ f.s = TsSize /\ f.c > 0

\* ------------------------------------------- manifest (buildManifestCommand)
\* rel.endsWith('.lock') || rel.endsWith('.log') || rel.endsWith('.tmp')
LockLogTmp == {"gw.log"}
\* mutant: the extension test is missing
configFilter_NoExtensionTest(rel, isDir) == TRUE

configFilter(rel, isDir) == isDir \/ rel \notin LockLogTmp

workspaceRootFiles == {"IDENTITY.md", "USER.md", "SOUL.md", "MEMORY.md"}
\* rel.startsWith('memory/') || rel.startsWith('assets/')
UnderMemoryOrAssets == {"memory/a.txt"}
\* rel === 'memory' || rel.startsWith('memory/') || rel === 'assets' || ...
MemoryOrAssetsDirs == {"memory", "assets"} \cup UnderMemoryOrAssets
workspaceFilter(rel, isDir) ==
  IF isDir THEN rel \in MemoryOrAssetsDirs
  ELSE rel \in workspaceRootFiles \/ rel \in UnderMemoryOrAssets
\* walk(skillsDir, skillsDir, 'skills'): no filter is passed
noFilter(rel, isDir) == TRUE

\* the directories the walk has to enter before it sees a path
Ancestors(n) ==
  IF n = "memory/a.txt" THEN {"memory"}
  ELSE IF n = "scratch/tmp.bin" THEN {"scratch"}
  ELSE {}

\* a.path.localeCompare(b.path): the category prefix, then the relative path
PrefixOrder == <<"openclaw", "skills", "workspace">>
NameOrder ==
  << ".last-sync", ".restored-from-r2", ".sync-manifest.json", "clawdbot.json",
     "gw.log", "IDENTITY.md", "manifest.json", "memory", "MEMORY.md",
     "memory/a.txt", "openclaw.json", "s1.md", "scratch/tmp.bin", "SOUL.md",
     "USER.md" >>
IndexOf(seq, x) == CHOOSE i \in 1..Len(seq) : seq[i] = x
PathRank(e) == IndexOf(PrefixOrder, e[1]) * (Len(NameOrder) + 1) + IndexOf(NameOrder, e[2])

\* the relative paths a walk can meet, and a filter as the value passed to
\* walk: (rel, isDir) -> boolean
WalkPaths == Names \cup {"scratch"}
FilterOf(name) ==
  [rel \in WalkPaths, isDir \in BOOLEAN |->
     IF name = "configFilter" THEN configFilter(rel, isDir)
     ELSE IF name = "workspaceFilter" THEN workspaceFilter(rel, isDir)
     ELSE noFilter(rel, isDir)]

\* addEntry: `if (!stat.isFile()) return`, else one entry
\* <<prefix, rel, size, mtime>>
addEntry(tree, prefix, n) ==
  IF tree[n].dir THEN {} ELSE {<<prefix, n, tree[n].s, tree[n].m>>}

\* walk(baseDir, baseDir, prefix, filter): a directory is entered when the
\* filter accepts it as a directory, a regular file that the filter accepts
\* goes to addEntry, a directory never does
walk(tree, prefix, filter) ==
  LET entered(n) == \A a \in Ancestors(n) : filter[a, TRUE]
      files == {n \in Names : /\ Present(tree[n]) /\ ~tree[n].dir
                               /\ entered(n) /\ filter[n, FALSE]}
  IN UNION {addEntry(tree, prefix, n) : n \in files}

RECURSIVE SortEntries(_)
SortEntries(S) ==
  IF S = {} THEN <<>>
  ELSE LET e == CHOOSE x \in S : \A y \in S : PathRank(x) <= PathRank(y)
       IN <<e>> \o SortEntries(S \ {e})

\* the three walks and entries.sort(...)
BuildManifest(l, cfgDir) ==
  SortEntries(
    walk(l[LDir(cfgDir)], "openclaw", FilterOf("configFilter"))
      \cup walk(l["skills"], "skills", FilterOf("none"))
      \cup walk(l["clawd"], "workspace", FilterOf("workspaceFilter")))

\* fs.writeFileSync(manifestPath, JSON.stringify({ entries }))
WriteManifest(l, cfgDir, now) ==
  LWrite(l, "openclaw", ".sync-manifest.json", ManifestFile(BuildManifest(l, cfgDir), now))

\* ------------------------------------------------------ copy primitives
\* rsync -r --no-times --delete with include/exclude rules: a file in scope
\* is transferred unless size and mtime already match (quick check), and it
\* then carries the transfer time; a file in scope that the source lacks is
\* deleted; files out of scope are neither copied nor deleted.
Rsync(src, dst, scope, now) ==
  [n \in Names |->
     IF n \notin scope THEN dst[n]
     ELSE IF ~Present(src[n]) THEN NoFile
     ELSE IF Present(dst[n]) /\ dst[n].s = src[n].s /\ dst[n].m = src[n].m THEN dst[n]
     ELSE [src[n] EXCEPT !.m = now]]

\* mutant: the include rules and the final --exclude='*' are missing
WorkspaceWhitelist_Everything == Names

\* --include='IDENTITY.md' ... --include='memory/***' --include='assets/***' --exclude='*'
WorkspaceWhitelist == {n \in Names : n \in workspaceRootFiles \/ n \in UnderMemoryOrAssets}
\* --exclude='*.lock' --exclude='*.log' --exclude='*.tmp'
ConfigSyncScope == Names \ LockLogTmp

\* cp -f src dst
CpF(f, now) == [f EXCEPT !.m = now]

\* ------------------------------------------------------------ syncToR2
SyncSteps == <<"config", "skills", "workspace", "manifest", "timestamp">>

\* `a && b && c && d && e`: a step runs iff every earlier step succeeded;
\* failAt names the first step that errors ("throw": startProcess rejects)
SyncRan(step, failAt) ==
  \/ failAt = "none"
  \/ \E i \in 1..Len(SyncSteps) : SyncSteps[i] = failAt /\ IndexOf(SyncSteps, step) < i

\* mutant: the comparison never succeeds
ManifestsMatch_Never(lv, rv) == FALSE

\* localValue && r2Value && localValue === r2Value
ManifestsMatch(lv, rv) == Present(lv) /\ Present(rv) /\ lv.man = rv.man

\* the remote store after the three rsync steps and the manifest upload
SyncCopies(l, r, cfgDir, failAt, now) ==
  LET lman == LFile(l, "openclaw", ".sync-manifest.json")
      r1 == IF SyncRan("config", failAt)
            THEN [r EXCEPT !["openclaw"] = Rsync(l[LDir(cfgDir)], @, ConfigSyncScope, now)]
            ELSE r
      r2 == IF SyncRan("skills", failAt)
            THEN [r1 EXCEPT !["skills"] = Rsync(l["skills"], @, Names, now)]
            ELSE r1
      r3 == IF SyncRan("workspace", failAt)
            THEN [r2 EXCEPT !["workspace"] = Rsync(l["clawd"], @, WorkspaceWhitelist, now)]
            ELSE r2
  IN IF SyncRan("manifest", failAt) /\ Present(lman)
     THEN [r3 EXCEPT !["root"]["manifest.json"] = CpF(lman, now)]
     ELSE r3

\* mutant: `; date -Iseconds > .last-sync` instead of `&& date ...`
SyncCmd_TimestampAlways(l, r, cfgDir, failAt, now) ==
  IF failAt # "throw"
  THEN [SyncCopies(l, r, cfgDir, failAt, now) EXCEPT !["root"][".last-sync"] = TimestampFile(now)]
  ELSE r

\* the remote store after syncCmd: `... && date -Iseconds > .last-sync`
SyncCmd(l, r, cfgDir, failAt, now) ==
  IF SyncRan("timestamp", failAt)
  THEN [SyncCopies(l, r, cfgDir, failAt, now) EXCEPT !["root"][".last-sync"] = TimestampFile(now)]
  ELSE SyncCopies(l, r, cfgDir, failAt, now)

\* the remote directories the rsync steps of syncCmd create
SyncCmdDirs(dirs, failAt) ==
  dirs \cup (IF SyncRan("config", failAt) THEN {"openclaw"} ELSE {})
       \cup (IF SyncRan("skills", failAt) THEN {"skills"} ELSE {})
       \cup (IF SyncRan("workspace", failAt) THEN {"workspace"} ELSE {})

\* the returned SyncResult / RestoreResult; path is the branch taken: for a
\* sync "fast" or "slow", for a restore the first step of the script that
\* errored ("none": every step ran)
Result(op, success, error, path, lastSync) ==
  [op |-> op, success |-> success, error |-> error, path |-> path, lastSync |-> lastSync]

Record(h, r) == IF Len(h) < HistLen THEN Append(h, r) ELSE Append(Tail(h), r)

\* lastSync && lastSync.match(...) ? lastSync : undefined   (0 = undefined)
ReadLastSync(r) == IF IsDateLike(r["root"][".last-sync"]) THEN r["root"][".last-sync"].c ELSE 0

\* one injected failure of the environment per faulty call
Faulty(allOk) == IF allOk THEN 0 ELSE 1

SyncFailAts == {"none", "config", "skills", "workspace", "manifest", "timestamp", "throw"}

\* failures of the process API itself: startProcess of the manifest build
\* rejects; syncCmd is still running when waitForProcess(proc, 30000) returns
SyncProcessFaults == {"build-throw", "timeout"}
\* the manifest build is still running when waitForProcess(proc, 20000)
\* returns: proc.exitCode is undefined and `proc.exitCode ?? 0` makes it 0;
\* buildOk then says whether the script had written its file by the time
\* the file is read
BuildTimeout == "build-timeout"
\* the failure the chain of syncCmd is run with
ChainFailAt(failAt) == IF failAt = BuildTimeout THEN "none" ELSE failAt

\* the result seen by the caller when an exception leaves the function
Uncaught(op) == Result(op, FALSE, "uncaught exception", "none", 0)

\* one external invocation and how it ended
Call(name, outcome) == <<name, outcome>>

\* how the process of a shell command ended, given the injected failure
CmdOutcome(failAt) ==
  IF failAt = "none" THEN "ok"
  ELSE IF failAt \in {"throw", "timeout"} THEN failAt
  ELSE "fail"

\* mutant: the restore marker is tested before credentials and mount
SyncPrecondition_MarkerFirst(l, cr, mt, mountOk) ==
  IF ~HasRestoreMarker(l) THEN "Restore required before backup"
  ELSE IF ~cr THEN "R2 storage is not configured"
  ELSE IF ~MountR2Storage(mt, mountOk) THEN "Failed to mount R2 storage"
  ELSE IF SyncConfigDir(l) = "none" THEN "Sync aborted: no config file found"
  ELSE ""

\* the hard aborts at the head of syncToR2, in the order the code makes them:
\* the error of the first failing one, "" when all four pass
SyncPrecondition(l, cr, mt, mountOk) ==
  IF ~cr THEN "R2 storage is not configured"
  ELSE IF ~MountR2Storage(mt, mountOk) THEN "Failed to mount R2 storage"
  ELSE IF ~HasRestoreMarker(l) THEN "Restore required before backup"
  ELSE IF SyncConfigDir(l) = "none" THEN "Sync aborted: no config file found"
  ELSE ""

\* the external invocations made before that return
SyncPreCalls(err) ==
  IF err = "R2 storage is not configured" THEN <<>>
  ELSE IF err = "Failed to mount R2 storage" THEN <<Call("mountR2Storage", "fail")>>
  ELSE IF err = "Restore required before backup"
    THEN <<Call("mountR2Storage", "ok"), Call("hasRestoreMarker", "ok")>>
  ELSE <<Call("mountR2Storage", "ok"), Call("hasRestoreMarker", "ok"),
         Call("checkConfig", "ok")>>

SyncAttempt(mountOk, buildOk, failAt) ==
  /\ clock + 2 <= MaxClock
  /\ clock' = clock + 2
  /\ faults' = faults + Faulty(mountOk /\ buildOk /\ failAt = "none")
  /\ faults' <= MaxFaults
  /\ UNCHANGED <<linked, creds, edits, restarts, restoredHere, installed>>
  /\ IF SyncPrecondition(loc, creds, mounted, mountOk) # "" THEN
       LET err == SyncPrecondition(loc, creds, mounted, mountOk)
       IN /\ buildOk /\ failAt = "none"
          /\ (Len(SyncPreCalls(err)) = 0 => mountOk)
          /\ (Len(SyncPreCalls(err)) > 1 /\ mounted => mountOk)
          /\ mounted' = (IF Len(SyncPreCalls(err)) > 1 THEN TRUE ELSE mounted)
          /\ hist' = Record(hist, Result("sync", FALSE, err, "none", 0))
          /\ calls' = SyncPreCalls(err)
          /\ UNCHANGED <<loc, rem, rdirs>>
     ELSE IF failAt = "build-throw" THEN
       \* runSandboxCommand(buildManifestCommand) is awaited outside any try
       /\ (mounted => mountOk) /\ buildOk
       /\ mounted' = TRUE
       /\ hist' = Record(hist, Uncaught("sync"))
       /\ calls' = <<Call("mountR2Storage", "ok"), Call("hasRestoreMarker", "ok"),
                     Call("checkConfig", "ok"), Call("buildManifest", "throw")>>
       /\ UNCHANGED <<loc, rem, rdirs>>
     ELSE
       LET cfgDir == SyncConfigDir(loc)
           l1 == IF buildOk THEN WriteManifest(loc, cfgDir, clock) ELSE loc
           exitZero == buildOk \/ failAt = BuildTimeout
           fast == exitZero /\ ManifestsMatch(LFile(l1, "openclaw", ".sync-manifest.json"),
                                              rem["root"]["manifest.json"])
           r1 == SyncCmd(l1, rem, cfgDir, ChainFailAt(failAt), clock + 1)
           pre == <<Call("mountR2Storage", "ok"), Call("hasRestoreMarker", "ok"),
                    Call("checkConfig", "ok")>>
                  \o (IF exitZero
                      THEN <<Call("buildManifest", IF failAt = BuildTimeout THEN "timeout" ELSE "ok"),
                             Call("catLocalManifest", "ok"), Call("catR2Manifest", "ok")>>
                      ELSE <<Call("buildManifest", "fail")>>)
       IN /\ (mounted => mountOk)
          /\ mounted' = TRUE
          /\ loc' = l1
          /\ IF fast THEN
               /\ ChainFailAt(failAt) = "none"
               /\ UNCHANGED <<rem, rdirs>>
               /\ hist' = Record(hist, Result("sync", TRUE, "", "fast", ReadLastSync(rem)))
               /\ calls' = pre \o <<Call("catLastSync", "ok")>>
             ELSE
               /\ rem' = r1
               /\ rdirs' = SyncCmdDirs(rdirs, ChainFailAt(failAt))
               /\ hist' = Record(hist,
                    IF failAt = "throw" THEN Result("sync", FALSE, "Sync error", "slow", 0)
                    ELSE IF ReadLastSync(r1) # 0 THEN Result("sync", TRUE, "", "slow", ReadLastSync(r1))
                    ELSE Result("sync", FALSE, "Sync failed", "slow", 0))
               /\ calls' = pre \o <<Call("syncCmd", CmdOutcome(ChainFailAt(failAt)))>>
                               \o (IF failAt = "throw" THEN <<>>
                                   ELSE <<Call("catTimestamp", "ok")>>)

\* one call of syncToR2 that runs from entry to return on its own
SyncToR2(mountOk, buildOk, failAt) ==
  /\ SyncAttempt(mountOk, buildOk, failAt)
  /\ UNCHANGED inflight

\* -------------------------------------------------------- restoreFromR2
RestoreSteps == <<"config", "skills", "workspace", "lastsync", "marker">>

\* `set -e; a; b; c; d; e`: the script stops at the first step that errors
RestoreRan(step, failAt) ==
  \/ failAt = "none"
  \/ \E i \in 1..Len(RestoreSteps) : RestoreSteps[i] = failAt /\ IndexOf(RestoreSteps, step) < i

\* mutant: the config step without the mv that follows the mirror
RestoreConfig_NoRename(cb, r, src, now) ==
  IF src \in {"openclaw", "openclaw-legacy"} THEN Rsync(r["openclaw"], cb, Names, now)
  ELSE IF src = "clawdbot" THEN Rsync(r["clawdbot"], cb, Names, now)
  ELSE [cb EXCEPT !["clawdbot.json"] = r["root"]["clawdbot.json"]]

\* the config step for the resolved layout
RestoreConfig(cb, r, src, now) ==
  IF src \in {"openclaw", "openclaw-legacy"} THEN
    LET c1 == Rsync(r["openclaw"], cb, Names, now)
    IN \* mv openclaw.json clawdbot.json when only the current name exists
       IF Present(c1["openclaw.json"]) /\ ~Present(c1["clawdbot.json"])
       THEN [c1 EXCEPT !["clawdbot.json"] = c1["openclaw.json"], !["openclaw.json"] = NoFile]
       ELSE c1
  ELSE IF src = "clawdbot" THEN Rsync(r["clawdbot"], cb, Names, now)
  ELSE \* cp -a of the flat legacy file
       [cb EXCEPT !["clawdbot.json"] = r["root"]["clawdbot.json"]]

\* mutant: the older prefix is tried first
RestoreWorkspace_OlderFirst(ws, r, dirs, now) ==
  IF "workspace-core" \in dirs THEN Rsync(r["workspace-core"], ws, WorkspaceWhitelist, now)
  ELSE IF "workspace" \in dirs THEN Rsync(r["workspace"], ws, WorkspaceWhitelist, now)
  ELSE ws

\* the workspace step: current prefix, else the older one, else nothing
RestoreWorkspace(ws, r, dirs, now) ==
  IF "workspace" \in dirs THEN Rsync(r["workspace"], ws, WorkspaceWhitelist, now)
  ELSE IF "workspace-core" \in dirs THEN Rsync(r["workspace-core"], ws, WorkspaceWhitelist, now)
  ELSE ws

\* the local filesystem after the restore command
RestoreCmd(l, r, dirs, src, failAt, now) ==
  LET l1 == IF RestoreRan("config", failAt)
            THEN [l EXCEPT !["clawdbot"] = RestoreConfig(@, r, src, now)]
            ELSE l
      l2 == IF RestoreRan("skills", failAt) /\ "skills" \in dirs
            THEN [l1 EXCEPT !["skills"] = Rsync(r["skills"], @, Names, now)]
            ELSE l1
      l3 == IF RestoreRan("workspace", failAt)
            THEN [l2 EXCEPT !["clawd"] = RestoreWorkspace(@, r, dirs, now)]
            ELSE l2
      l4 == IF RestoreRan("lastsync", failAt) /\ Present(r["root"][".last-sync"])
            THEN [l3 EXCEPT !["clawdbot"][".last-sync"] = CpF(r["root"][".last-sync"], now)]
            ELSE l3
  IN IF RestoreRan("marker", failAt)
     THEN [l4 EXCEPT !["clawdbot"][".restored-from-r2"] = TimestampFile(now)]
     ELSE l4

\* mutant: the freshly built local manifest is always uploaded
BaselineManifest_LocalWins(l, r, now) ==
  IF Present(LFile(l, "openclaw", ".sync-manifest.json"))
  THEN [loc |-> l,
        rem |-> [r EXCEPT !["root"]["manifest.json"] =
                   CpF(LFile(l, "openclaw", ".sync-manifest.json"), now)]]
  ELSE [loc |-> l, rem |-> r]

\* manifest baselining: the remote manifest overwrites the local one, else
\* the local one is uploaded
BaselineManifest(l, r, now) ==
  IF Present(r["root"]["manifest.json"])
  THEN [loc |-> LWrite(l, "openclaw", ".sync-manifest.json", CpF(r["root"]["manifest.json"], now)),
        rem |-> r]
  ELSE IF Present(LFile(l, "openclaw", ".sync-manifest.json"))
  THEN [loc |-> l,
        rem |-> [r EXCEPT !["root"]["manifest.json"] =
                   CpF(LFile(l, "openclaw", ".sync-manifest.json"), now)]]
  ELSE [loc |-> l, rem |-> r]

\* a step can only fail if the script reaches and executes it
RestoreCanFail(failAt, dirs) ==
  /\ failAt = "skills" => "skills" \in dirs
  /\ failAt = "workspace" => ("workspace" \in dirs \/ "workspace-core" \in dirs)

RestoreFailAts == {"none", "config", "skills", "workspace", "throw"}

\* failures of the process API itself: startProcess of the manifest build
\* rejects after the script ran; the restore script is still running in its
\* first copy step when waitForProcess(restoreProc, 30000) returns
RestoreProcessFaults == {"baseline-throw", "timeout"}

RestoreFromR2(mountOk, failAt) ==
  /\ clock + 2 <= MaxClock
  /\ clock' = clock + 2
  /\ faults' = faults + Faulty(mountOk /\ failAt = "none")
  /\ faults' <= MaxFaults
  /\ UNCHANGED <<linked, creds, edits, restarts, rdirs, installed, inflight>>
  /\ IF ~creds THEN
       /\ mountOk /\ failAt = "none"
       /\ hist' = Record(hist, Result("restore", FALSE, "R2 storage is not configured", "none", 0))
       /\ calls' = <<>>
       /\ UNCHANGED <<loc, rem, mounted, restoredHere>>
     ELSE IF ~MountR2Storage(mounted, mountOk) THEN
       /\ failAt = "none"
       /\ hist' = Record(hist, Result("restore", FALSE, "Failed to mount R2 storage", "none", 0))
       /\ calls' = <<Call("mountR2Storage", "fail")>>
       /\ UNCHANGED <<loc, rem, mounted, restoredHere>>
     ELSE IF ResolveLayout(rem) = "none" THEN
       /\ (mounted => mountOk) /\ failAt = "none"
       /\ mounted' = TRUE
       /\ hist' = Record(hist, Result("restore", FALSE, "No backup found in R2", "none", 0))
       /\ calls' = <<Call("mountR2Storage", "ok"), Call("layoutProbe", "ok")>>
       /\ UNCHANGED <<loc, rem, restoredHere>>
     ELSE IF failAt = "throw" THEN
       /\ (mounted => mountOk)
       /\ mounted' = TRUE
       /\ hist' = Record(hist, Result("restore", FALSE, "Restore failed", "throw", 0))
       /\ calls' = <<Call("mountR2Storage", "ok"), Call("layoutProbe", "ok"),
                     Call("restoreCmd", "throw")>>
       /\ UNCHANGED <<loc, rem, restoredHere>>
     ELSE IF failAt = "baseline-throw" THEN
       \* the script ran; runSandboxCommand(buildManifestCommand) is awaited
       \* outside any try
       LET l1 == RestoreCmd(loc, rem, rdirs, ResolveLayout(rem), "none", clock)
       IN /\ (mounted => mountOk)
          /\ ResolveConfigDir(l1) # "none"
          /\ mounted' = TRUE
          /\ loc' = l1
          /\ restoredHere' = TRUE
          /\ hist' = Record(hist, Uncaught("restore"))
          /\ calls' = <<Call("mountR2Storage", "ok"), Call("layoutProbe", "ok"),
                        Call("restoreCmd", "ok"), Call("resolveConfigDir", "ok"),
                        Call("buildManifest", "throw")>>
          /\ UNCHANGED rem
     ELSE
       LET l1 == RestoreCmd(loc, rem, rdirs, ResolveLayout(rem), failAt, clock)
           cfgDir == ResolveConfigDir(l1)
           b == IF cfgDir = "none" THEN [loc |-> l1, rem |-> rem]
                ELSE BaselineManifest(WriteManifest(l1, cfgDir, clock + 1), rem, clock + 1)
       IN /\ (mounted => mountOk)
          /\ RestoreCanFail(failAt, rdirs)
          /\ mounted' = TRUE
          /\ loc' = b.loc
          /\ rem' = b.rem
          /\ restoredHere' = (restoredHere \/ failAt = "none")
          /\ hist' = Record(hist, Result("restore", TRUE, "", failAt, ReadLastSync(b.rem)))
          /\ calls' = <<Call("mountR2Storage", "ok"), Call("layoutProbe", "ok"),
                        Call("restoreCmd", CmdOutcome(failAt)), Call("resolveConfigDir", "ok")>>
                      \o (IF cfgDir = "none" THEN <<>>
                          ELSE <<Call("buildManifest", "ok"), Call("catR2Manifest", "ok"),
                                 Call("baselineCopy", "ok")>>)
                      \o <<Call("catLastSync", "ok")>>

\* ------------------------------------------------- the agent's own writes
\* the agent (or its operator) creates a local file or rewrites it with
\* other content
EditTargets ==
  { <<"clawdbot", "clawdbot.json">>, <<"openclaw", "openclaw.json">>,
    <<"skills", "s1.md">> }

LocalWrite(d, n) ==
  /\ edits < MaxEdits
  /\ clock + 1 <= MaxClock
  /\ loc' = LWrite(loc, d, n, UserFile((LFile(loc, d, n).c % MaxContent) + 1, clock))
  /\ clock' = clock + 1
  /\ edits' = edits + 1
  /\ hist' = Record(hist, Result("edit", TRUE, "", "none", 0))
  /\ calls' = <<>>
  /\ UNCHANGED <<rem, rdirs, linked, creds, mounted, restarts, faults, restoredHere,
                 installed, inflight>>

\* ------------------------------------------- mountR2StorageWithDetails
\* how the process of `mount | grep "s3fs on ..."` ended: it ran, it was
\* still running after the 10 polls, or startProcess/getLogs rejected
ProbeOutcomes == {"ok", "timeout", "throw"}
\* how sandbox.mountBucket ended: attached and returned, threw without
\* attaching, or threw after attaching
AttachOutcomes == {"ok", "fail", "spurious"}

\* mutant: isR2Mounted without its try/catch
IsR2Mounted_NoCatch(mt, probe) ==
  IF probe = "throw" THEN "throw"
  ELSE IF probe = "ok" /\ mt THEN "mounted"
  ELSE "absent"

\* isR2Mounted: stdout of the probe names the mount; the catch answers false
IsR2Mounted(mt, probe) ==
  IF probe = "ok" /\ mt THEN "mounted" ELSE "absent"

\* the mount table after sandbox.mountBucket
Attach(mt, att) == mt \/ att \in {"ok", "spurious"}

MountOutcome(mnt, err, cs, table) ==
  [mounted |-> mnt, error |-> err, calls |-> cs, table |-> table]

\* mutant: the first probe is skipped and the bucket attached on every call
MountResult_AlwaysAttach(cr, mt, p1, att, p2) ==
  IF ~cr THEN MountOutcome(FALSE, "R2 storage is not configured", <<>>, mt)
  ELSE IF att = "ok"
    THEN MountOutcome(TRUE, "", <<Call("mountBucket", "ok")>>, TRUE)
  ELSE IF IsR2Mounted(Attach(mt, att), p2) = "mounted"
    THEN MountOutcome(TRUE, "", <<Call("mountBucket", "throw"), Call("isR2Mounted", p2)>>,
                      Attach(mt, att))
  ELSE MountOutcome(FALSE, "Failed to mount R2 storage",
                    <<Call("mountBucket", "throw"), Call("isR2Mounted", p2)>>, Attach(mt, att))

\* mutant: the credentials are not tested
MountResult_NoCredentialCheck(cr, mt, p1, att, p2) ==
  IF IsR2Mounted(mt, p1) = "mounted"
    THEN MountOutcome(TRUE, "", <<Call("isR2Mounted", p1)>>, mt)
  ELSE IF att = "ok"
    THEN MountOutcome(TRUE, "", <<Call("isR2Mounted", p1), Call("mountBucket", "ok")>>, TRUE)
  ELSE IF IsR2Mounted(Attach(mt, att), p2) = "mounted"
    THEN MountOutcome(TRUE, "",
                      <<Call("isR2Mounted", p1), Call("mountBucket", "throw"),
                        Call("isR2Mounted", p2)>>, Attach(mt, att))
  ELSE MountOutcome(FALSE, "Failed to mount R2 storage",
                    <<Call("isR2Mounted", p1), Call("mountBucket", "throw"),
                      Call("isR2Mounted", p2)>>, Attach(mt, att))

\* what one call returns, the invocations it makes and the mount table it
\* leaves; an exception out of isR2Mounted at line 85 or 106 would leave the
\* function, one out of mountBucket is caught at line 102
MountResult(cr, mt, p1, att, p2) ==
  IF ~cr THEN MountOutcome(FALSE, "R2 storage is not configured", <<>>, mt)
  ELSE IF IsR2Mounted(mt, p1) = "throw"
    THEN MountOutcome(FALSE, "uncaught exception", <<Call("isR2Mounted", p1)>>, mt)
  ELSE IF IsR2Mounted(mt, p1) = "mounted"
    THEN MountOutcome(TRUE, "", <<Call("isR2Mounted", p1)>>, mt)
  ELSE IF att = "ok"
    THEN MountOutcome(TRUE, "", <<Call("isR2Mounted", p1), Call("mountBucket", "ok")>>, TRUE)
  ELSE IF IsR2Mounted(Attach(mt, att), p2) = "throw"
    THEN MountOutcome(FALSE, "uncaught exception",
                      <<Call("isR2Mounted", p1), Call("mountBucket", "throw"),
                        Call("isR2Mounted", p2)>>, Attach(mt, att))
  ELSE IF IsR2Mounted(Attach(mt, att), p2) = "mounted"
    THEN MountOutcome(TRUE, "",
                      <<Call("isR2Mounted", p1), Call("mountBucket", "throw"),
                        Call("isR2Mounted", p2)>>, Attach(mt, att))
  ELSE MountOutcome(FALSE, "Failed to mount R2 storage",
                    <<Call("isR2Mounted", p1), Call("mountBucket", "throw"),
                      Call("isR2Mounted", p2)>>, Attach(mt, att))

\* one call of mountR2StorageWithDetails. mountBucket on a path that is
\* already mounted does not attach a second time: it throws.
MountR2StorageWithDetails(p1, att, p2) ==
  /\ clock + 1 <= MaxClock
  /\ clock' = clock + 1
  /\ (mounted => att = "fail")
  /\ LET r == MountResult(creds, mounted, p1, att, p2)
     IN /\ mounted' = r.table
        /\ calls' = r.calls
        /\ hist' = Record(hist, Result("mount", r.mounted, r.error, "none", 0))
  /\ UNCHANGED <<loc, rem, rdirs, linked, creds, edits, restarts, faults, restoredHere,
                 installed, inflight>>

\* ------------------------------------------------------ container restart
\* the compute environment is replaced: the local filesystem and the mount
\* are gone, the remote store survives
ContainerRestart ==
  /\ restarts < MaxRestarts
  /\ loc' = [d \in LocalDirs |-> EmptyTree]
  /\ mounted' = FALSE
  /\ restarts' = restarts + 1
  /\ restoredHere' = FALSE
  /\ hist' = Record(hist, Result("restart", TRUE, "", "none", 0))
  /\ calls' = <<>>
  /\ UNCHANGED <<rem, rdirs, linked, creds, clock, edits, faults, installed, inflight>>

\* ------------------------------------------------------------------ Init
\* remote stores left by earlier deployments, all written at time 1
Seed(files) ==
  [d \in RemoteDirs |-> [n \in Names |->
     IF <<d, n>> \in files THEN
       (IF n = ".last-sync" THEN TimestampFile(1) ELSE UserFile(1, 1))
     ELSE NoFile]]

SeedEmpty == {}
SeedCurrent ==
  { <<"openclaw", "openclaw.json">>, <<"skills", "s1.md">>,
    <<"workspace", "IDENTITY.md">>, <<"root", ".last-sync">> }
SeedCurrentLegacyFile == { <<"openclaw", "clawdbot.json">>, <<"root", ".last-sync">> }
SeedLegacyNested ==
  { <<"clawdbot", "clawdbot.json">>, <<"skills", "s1.md">>,
    <<"workspace-core", "IDENTITY.md">>, <<"workspace-core", "memory/a.txt">>,
    <<"workspace-core", "scratch/tmp.bin">>, <<"root", ".last-sync">> }
SeedLegacyFlat == { <<"root", "clawdbot.json">> }
Seeds == {SeedEmpty, SeedCurrent, SeedCurrentLegacyFile, SeedLegacyNested, SeedLegacyFlat}

Init ==
  /\ loc = [d \in LocalDirs |-> EmptyTree]
  /\ \E files \in Seeds :
       /\ rem = Seed(files)
       /\ rdirs = {"root"} \cup {p[1] : p \in files}
  /\ linked \in BOOLEAN
  /\ creds \in BOOLEAN
  /\ mounted = FALSE
  /\ clock = 2
  /\ edits = 0
  /\ restarts = 0
  /\ faults = 0
  /\ calls = <<>>
  /\ restoredHere = FALSE
  /\ hist = <<>>
  /\ installed = ImageBinaries
  /\ inflight = {}

Next ==
  \/ \E mountOk \in BOOLEAN, buildOk \in BOOLEAN, failAt \in SyncFailAts :
       SyncToR2(mountOk, buildOk, failAt)
  \/ \E mountOk \in BOOLEAN, failAt \in RestoreFailAts : RestoreFromR2(mountOk, failAt)
  \/ \E t \in EditTargets : LocalWrite(t[1], t[2])
  \/ ContainerRestart

Spec == Init /\ [][Next]_vars

\* the same system with the failures of the process API as well
NextF ==
  \/ \E mountOk \in BOOLEAN, buildOk \in BOOLEAN,
        failAt \in SyncFailAts \cup SyncProcessFaults :
       SyncToR2(mountOk, buildOk, failAt)
  \/ \E mountOk \in BOOLEAN, failAt \in RestoreFailAts \cup RestoreProcessFaults :
       RestoreFromR2(mountOk, failAt)
  \/ \E t \in EditTargets : LocalWrite(t[1], t[2])
  \/ ContainerRestart

SpecF == Init /\ [][NextF]_vars

\* ------------------------------------------- a container at work (SpecWs)
\* A container in which a restore has completed (at time 2, manifest
\* baseline at time 3) and the agent has since written or deleted workspace
\* files, and possibly lost its config file.
WsNames == <<"IDENTITY.md", "memory/a.txt", "scratch/tmp.bin">>

\* remote workspace objects left by an upload or an earlier deployment
WsRemoteTrees ==
  { {},
    { <<"workspace", "IDENTITY.md">>, <<"workspace", "memory/a.txt">>,
      <<"workspace", "scratch/tmp.bin">> },
    { <<"workspace", "scratch/tmp.bin">> } }

WsSeedBase ==
  { <<"openclaw", "openclaw.json">>, <<"skills", "s1.md">>, <<"root", ".last-sync">> }

\* the state restoreFromR2 leaves in a fresh container
Restored(r, dirs) ==
  LET l1 == RestoreCmd([d \in LocalDirs |-> EmptyTree], r, dirs, ResolveLayout(r), "none", 2)
  IN BaselineManifest(WriteManifest(l1, ResolveConfigDir(l1), 3), r, 3)

\* the agent's workspace afterwards: content k[i] in file WsNames[i], 0 = no file
Overlay(tree, k) ==
  [n \in Names |->
     IF \E i \in 1..Len(WsNames) : WsNames[i] = n
     THEN LET i == IndexOf(WsNames, n)
          IN IF k[i] = 0 THEN NoFile ELSE UserFile(k[i], 3)
     ELSE tree[n]]

InitWs ==
  /\ linked \in BOOLEAN
  /\ creds = TRUE
  /\ mounted = TRUE
  /\ \E w \in WsRemoteTrees, k \in [1..Len(WsNames) -> 0..MaxContent], keepConfig \in BOOLEAN :
       LET files == WsSeedBase \cup w
           dirs == {"root"} \cup {p[1] : p \in files}
           b == Restored(Seed(files), dirs)
       IN /\ rdirs = dirs
          /\ rem = b.rem
          /\ loc = [b.loc EXCEPT
                      !["clawd"] = Overlay(@, k),
                      !["clawdbot"]["clawdbot.json"] = IF keepConfig THEN @ ELSE NoFile]
  /\ clock = 4
  /\ edits = 0
  /\ restarts = 0
  /\ faults = 0
  /\ calls = <<>>
  /\ restoredHere = TRUE
  /\ hist = <<>>
  /\ installed = ImageBinaries
  /\ inflight = {}

NextWs ==
  \/ \E mountOk \in BOOLEAN, buildOk \in BOOLEAN, failAt \in SyncFailAts :
       SyncToR2(mountOk, buildOk, failAt)
  \/ \E mountOk \in BOOLEAN, failAt \in RestoreFailAts : RestoreFromR2(mountOk, failAt)

SpecWs == InitWs /\ [][NextWs]_vars

\* -------------------------------------------- every layout (SpecLayout)
\* the four remote paths the layout probe tests, in the order it tests them;
\* the file at path i has content i
LayoutPaths ==
  << <<"openclaw", "openclaw.json">>, <<"openclaw", "clawdbot.json">>,
     <<"clawdbot", "clawdbot.json">>, <<"root", "clawdbot.json">> >>

LayoutSeed(P) ==
  [d \in RemoteDirs |-> [n \in Names |->
     IF \E i \in P : LayoutPaths[i] = <<d, n>>
     THEN UserFile(CHOOSE i \in P : LayoutPaths[i] = <<d, n>>, 1)
     ELSE NoFile]]

\* a fresh container in front of a bucket holding any combination of the four
InitLayout ==
  /\ loc = [d \in LocalDirs |-> EmptyTree]
  /\ \E P \in SUBSET (1..Len(LayoutPaths)) :
       /\ rem = LayoutSeed(P)
       /\ rdirs = {"root"} \cup {LayoutPaths[i][1] : i \in P}
  /\ linked \in BOOLEAN
  /\ creds = TRUE
  /\ mounted = FALSE
  /\ clock = 2
  /\ edits = 0
  /\ restarts = 0
  /\ faults = 0
  /\ calls = <<>>
  /\ restoredHere = FALSE
  /\ hist = <<>>
  /\ installed = ImageBinaries
  /\ inflight = {}

NextLayout ==
  \E mountOk \in BOOLEAN, failAt \in RestoreFailAts : RestoreFromR2(mountOk, failAt)

SpecLayout == InitLayout /\ [][NextLayout]_vars

\* ------------------------------------- any container state (SpecPre)
\* A running container in any combination of: credentials set or not, bucket
\* mounted or not, restore marker present or not, each of the two config
\* files present or not (the agent and the start script both write under
\* /root/.clawdbot), in front of an empty or a populated bucket.
PreConfigFiles == { <<"clawdbot", "clawdbot.json">>, <<"openclaw", "openclaw.json">> }

PreLocal(marker, cfg) ==
  [d \in LocalDirs |-> [n \in Names |->
     IF d = "clawdbot" /\ n = ".restored-from-r2" /\ marker THEN UserFile(0, 1)
     ELSE IF \E f \in cfg : LDir(f[1]) = d /\ f[2] = n THEN UserFile(1, 1)
     ELSE NoFile]]

InitPre ==
  /\ linked \in BOOLEAN
  /\ creds \in BOOLEAN
  /\ mounted \in BOOLEAN
  /\ \E marker \in BOOLEAN, cfg \in SUBSET PreConfigFiles, files \in {SeedEmpty, SeedCurrent} :
       /\ loc = PreLocal(marker, cfg)
       /\ rem = Seed(files)
       /\ rdirs = {"root"} \cup {p[1] : p \in files}
       /\ restoredHere = marker
  /\ clock = 2
  /\ edits = 0
  /\ restarts = 0
  /\ faults = 0
  /\ calls = <<>>
  /\ hist = <<>>
  /\ installed = ImageBinaries
  /\ inflight = {}

NextPre ==
  \/ \E mountOk \in BOOLEAN, buildOk \in BOOLEAN, failAt \in SyncFailAts :
       SyncToR2(mountOk, buildOk, failAt)
  \/ \E mountOk \in BOOLEAN, failAt \in RestoreFailAts : RestoreFromR2(mountOk, failAt)

SpecPre == InitPre /\ [][NextPre]_vars

\* ------------------------------------------ mounting alone (SpecMount)
\* A container with nothing restored yet in front of an empty bucket, with
\* or without credentials, the bucket possibly still mounted from before the
\* worker restarted; the mount is called on its own and through sync/restore.
InitMount ==
  /\ loc = [d \in LocalDirs |-> EmptyTree]
  /\ rem = Seed(SeedEmpty)
  /\ rdirs = {"root"}
  /\ linked \in BOOLEAN
  /\ creds \in BOOLEAN
  /\ mounted \in BOOLEAN
  /\ clock = 2
  /\ edits = 0
  /\ restarts = 0
  /\ faults = 0
  /\ calls = <<>>
  /\ restoredHere = FALSE
  /\ hist = <<>>
  /\ installed = ImageBinaries
  /\ inflight = {}

NextMount ==
  \/ \E p1 \in ProbeOutcomes, att \in AttachOutcomes, p2 \in ProbeOutcomes :
       MountR2StorageWithDetails(p1, att, p2)
  \/ \E mountOk \in BOOLEAN, buildOk \in BOOLEAN, failAt \in SyncFailAts :
       SyncToR2(mountOk, buildOk, failAt)
  \/ \E mountOk \in BOOLEAN, failAt \in RestoreFailAts : RestoreFromR2(mountOk, failAt)
  \/ ContainerRestart

SpecMount == InitMount /\ [][NextMount]_vars

\* ------------------------------------------- choosing the CLI (SpecCli)
\* gateway/utils.ts: if command -v openclawbot-online ...; elif command -v
\* openclaw ...; else clawdbot
buildCliCommand(inst) ==
  IF "openclawbot-online" \in inst THEN "openclawbot-online"
  ELSE IF "openclaw" \in inst THEN "openclaw"
  ELSE "clawdbot"

\* routes/api.ts has its own builder: if command -v openclaw ...; else clawdbot
apiBuildCliCommand(inst) ==
  IF "openclaw" \in inst THEN "openclaw" ELSE "clawdbot"

\* start-moltbot.sh: CLI_BIN="clawdbot"; if command -v openclaw; then CLI_BIN="openclaw"
CLI_BIN(inst) ==
  IF "openclaw" \in inst THEN "openclaw" ELSE "clawdbot"

\* the sites that run the agent CLI
CliSites == {"gateway", "api", "start"}

SelectedBin(site, inst) ==
  IF site = "gateway" THEN buildCliCommand(inst)
  ELSE IF site = "api" THEN apiBuildCliCommand(inst)
  ELSE CLI_BIN(inst)

\* one site runs the CLI: the shell resolves the binary its command names
InvokeCli(site) ==
  /\ calls' = <<Call(site, SelectedBin(site, installed))>>
  /\ hist' = Record(hist,
       IF SelectedBin(site, installed) \in installed
       THEN Result("cli", TRUE, "", site, 0)
       ELSE Result("cli", FALSE, "command not found", site, 0))
  /\ UNCHANGED <<loc, rem, rdirs, linked, creds, mounted, clock, edits, restarts, faults,
                 restoredHere, installed, inflight>>

\* a container of an image with any set of the three binaries installed
InitCli ==
  /\ loc = [d \in LocalDirs |-> EmptyTree]
  /\ rem = Seed(SeedEmpty)
  /\ rdirs = {"root"}
  /\ linked = TRUE
  /\ creds = TRUE
  /\ mounted = FALSE
  /\ clock = 2
  /\ edits = 0
  /\ restarts = 0
  /\ faults = 0
  /\ calls = <<>>
  /\ restoredHere = FALSE
  /\ hist = <<>>
  /\ installed \in SUBSET {CLI_BIN_CANDIDATES[i] : i \in 1..Len(CLI_BIN_CANDIDATES)}
  /\ inflight = {}

NextCli == \E site \in CliSites : InvokeCli(site)

SpecCli == InitCli /\ [][NextCli]_vars

\* ------------------------------------- overlapping triggers (SpecConc)
\* the callers of syncToR2: the cron trigger (scheduled) and admin requests
\* (POST /api/admin/storage/sync), of which two may be open at once
Triggers == {"cron", "admin-1", "admin-2"}

\* a trigger calls syncToR2 and the call reaches its first await; nothing in
\* the handler or in syncToR2 tests whether another call is under way
EnterSync(t) ==
  /\ t \notin inflight
  /\ inflight' = inflight \cup {t}
  /\ UNCHANGED <<loc, rem, rdirs, linked, creds, mounted, clock, edits, restarts, faults,
                 calls, restoredHere, hist, installed>>

\* the call of trigger t runs to its return
ReturnSync(t, mountOk, buildOk, failAt) ==
  /\ t \in inflight
  /\ SyncAttempt(mountOk, buildOk, failAt)
  /\ inflight' = inflight \ {t}

\* a container in which a restore has completed, no call under way
InitConc ==
  /\ linked \in BOOLEAN
  /\ creds = TRUE
  /\ mounted \in BOOLEAN
  /\ \E files \in {SeedCurrent, SeedLegacyNested} :
       LET dirs == {"root"} \cup {p[1] : p \in files}
           b == Restored(Seed(files), dirs)
       IN /\ rdirs = dirs
          /\ rem = b.rem
          /\ loc = b.loc
  /\ clock = 4
  /\ edits = 0
  /\ restarts = 0
  /\ faults = 0
  /\ calls = <<>>
  /\ restoredHere = TRUE
  /\ hist = <<>>
  /\ installed = ImageBinaries
  /\ inflight = {}

NextConc ==
  \/ \E t \in Triggers : EnterSync(t)
  \/ \E t \in Triggers, mountOk \in BOOLEAN, buildOk \in BOOLEAN, failAt \in SyncFailAts :
       ReturnSync(t, mountOk, buildOk, failAt)
  \/ \E t \in EditTargets : LocalWrite(t[1], t[2])

SpecConc == InitConc /\ [][NextConc]_vars

\* ---------------------------------- two workspace prefixes (SpecPrefix)
\* what a remote workspace prefix can hold: no directory at all, or a
\* directory with any of the two whitelisted files
PrefixNames == {"IDENTITY.md", "memory/a.txt"}
PrefixStates ==
  {[dir |-> FALSE, files |-> {}]} \cup {[dir |-> TRUE, files |-> S] : S \in SUBSET PrefixNames}
PrefixTree(st, content) ==
  [n \in Names |->
     IF st.dir /\ n \in st.files THEN UserFile(content, 1) ELSE NoFile]

\* a container with or without workspace files of its own, in front of a
\* bucket with a config backup and each of workspace/ (content 1) and
\* workspace-core/ (content 2) in any of those states
InitPrefix ==
  /\ linked \in BOOLEAN
  /\ creds = TRUE
  /\ mounted = TRUE
  /\ \E cur \in PrefixStates, old \in PrefixStates, own \in BOOLEAN :
       /\ rem = [Seed({<<"openclaw", "openclaw.json">>, <<"root", ".last-sync">>}) EXCEPT
                   !["workspace"] = PrefixTree(cur, 1),
                   !["workspace-core"] = PrefixTree(old, 2)]
       /\ rdirs = {"root", "openclaw"}
                    \cup (IF cur.dir THEN {"workspace"} ELSE {})
                    \cup (IF old.dir THEN {"workspace-core"} ELSE {})
       /\ loc = [d \in LocalDirs |->
                   IF d = "clawd" /\ own
                   THEN [n \in Names |-> IF n \in PrefixNames THEN UserFile(2, 1) ELSE NoFile]
                   ELSE EmptyTree]
  /\ clock = 2
  /\ edits = 0
  /\ restarts = 0
  /\ faults = 0
  /\ calls = <<>>
  /\ restoredHere = FALSE
  /\ hist = <<>>
  /\ installed = ImageBinaries
  /\ inflight = {}

NextPrefix ==
  \E mountOk \in BOOLEAN, failAt \in RestoreFailAts : RestoreFromR2(mountOk, failAt)

SpecPrefix == InitPrefix /\ [][NextPrefix]_vars

\* ------------------------------------- buildManifest alone (SpecManifest)
\* what can be found under a name: nothing, a regular file, a directory
Kinds == {"none", "file", "dir"}
Item(kind, content) ==
  IF kind = "file" THEN UserFile(content, 1)
  ELSE IF kind = "dir" THEN Directory(1)
  ELSE NoFile

\* one run of the script of buildManifestCommand(configDir): the entries
\* are written to MANIFEST_PATH
RunBuildManifest(cfgDir) ==
  /\ clock + 1 <= MaxClock
  /\ loc' = WriteManifest(loc, cfgDir, clock)
  /\ clock' = clock + 1
  /\ calls' = <<Call("buildManifest", "ok")>>
  /\ hist' = Record(hist, Result("manifest", TRUE, "", cfgDir, 0))
  /\ UNCHANGED <<rem, rdirs, linked, creds, mounted, edits, restarts, faults,
                 restoredHere, installed, inflight>>

\* the three directories the script walks, holding files and directories
\* inside and outside every filter: a log file and a directory named like
\* one in the config directory, a log file among the skills, and in the
\* workspace IDENTITY.md as a file or a directory, memory as a directory
\* with a file in it or as a plain file, and a file under scratch/
InitManifest ==
  /\ linked \in BOOLEAN
  /\ creds = TRUE
  /\ mounted = TRUE
  /\ rem = Seed(SeedEmpty)
  /\ rdirs = {"root"}
  /\ \E cfg \in {"none", "file"}, log \in Kinds, skill \in Kinds,
        ident \in Kinds, mem \in Kinds, memFile \in {"none", "file"},
        scratch \in {"none", "file"}, cfgDir \in {"clawdbot", "openclaw"} :
       /\ (memFile = "file" => mem = "dir")
       /\ loc = [d \in LocalDirs |-> [n \in Names |->
            IF d = LDir(cfgDir) /\ n = cfgDir \o ".json" THEN Item(cfg, 1)
            ELSE IF d = LDir(cfgDir) /\ n = "gw.log" THEN Item(log, 1)
            ELSE IF d = "skills" /\ n = "s1.md" THEN Item(skill, 1)
            ELSE IF d = "skills" /\ n = "gw.log" THEN Item(cfg, 2)
            ELSE IF d = "clawd" /\ n = "IDENTITY.md" THEN Item(ident, 1)
            ELSE IF d = "clawd" /\ n = "memory" THEN Item(mem, 2)
            ELSE IF d = "clawd" /\ n = "memory/a.txt" THEN Item(memFile, 1)
            ELSE IF d = "clawd" /\ n = "scratch/tmp.bin" THEN Item(scratch, 2)
            ELSE NoFile]]
  /\ clock = 2
  /\ edits = 0
  /\ restarts = 0
  /\ faults = 0
  /\ calls = <<>>
  /\ restoredHere = FALSE
  /\ hist = <<>>
  /\ installed = ImageBinaries
  /\ inflight = {}

NextManifest == \E cfgDir \in {"clawdbot", "openclaw"} : RunBuildManifest(cfgDir)

SpecManifest == InitManifest /\ [][NextManifest]_vars

\* ------------------------------- changes between syncs (SpecScope)
\* the files of a container that was restored and fully synced at time 1
ScopeBase ==
  { <<"clawdbot", "clawdbot.json">>, <<"clawdbot", ".restored-from-r2">>,
    <<"skills", "s1.md">>, <<"clawd", "IDENTITY.md">> }
\* files inside the sync scope that the agent may add afterwards: one in the
\* config directory, one among the skills, one under memory/
ScopeAddable ==
  { <<"clawdbot", "s1.md">>, <<"skills", "IDENTITY.md">>, <<"clawd", "memory/a.txt">> }
\* the files the agent changes or removes
ScopeTargets == (ScopeBase \ {<<"clawdbot", ".restored-from-r2">>}) \cup ScopeAddable

\* rm of a file of the agent
LocalRemove(d, n) ==
  /\ edits < MaxEdits
  /\ clock + 1 <= MaxClock
  /\ Present(loc[d][n])
  /\ loc' = [loc EXCEPT ![d][n] = NoFile]
  /\ clock' = clock + 1
  /\ edits' = edits + 1
  /\ hist' = Record(hist, Result("remove", TRUE, "", "none", 0))
  /\ calls' = <<>>
  /\ UNCHANGED <<rem, rdirs, linked, creds, mounted, restarts, faults, restoredHere,
                 installed, inflight>>

\* /root/.clawdbot is the config directory and /root/.openclaw a directory
\* of its own, so the manifest file lies outside the walked trees; the last
\* sync, at time 1, uploaded everything and the manifest; since then the
\* agent has added any of the addable files
InitScope ==
  /\ linked = FALSE
  /\ creds = TRUE
  /\ mounted = TRUE
  /\ \E added \in SUBSET ScopeAddable :
       LET l0 == [d \in LocalDirs |-> [n \in Names |->
                    IF <<d, n>> \in ScopeBase THEN UserFile(1, 1) ELSE NoFile]]
           lm == WriteManifest(l0, "clawdbot", 1)
       IN /\ rem = SyncCmd(lm, Seed(SeedEmpty), "clawdbot", "none", 1)
          /\ loc = [d \in LocalDirs |-> [n \in Names |->
                      IF <<d, n>> \in added THEN UserFile(1, 1) ELSE lm[d][n]]]
  /\ rdirs = SyncCmdDirs({"root"}, "none")
  /\ clock = 2
  /\ edits = 0
  /\ restarts = 0
  /\ faults = 0
  /\ calls = <<>>
  /\ restoredHere = TRUE
  /\ hist = <<>>
  /\ installed = ImageBinaries
  /\ inflight = {}

\* syncs whose commands may exit non-zero, and the agent's changes
NextScope ==
  \/ \E buildOk \in BOOLEAN, failAt \in SyncFailAts \ {"throw"} :
       SyncToR2(TRUE, buildOk, failAt)
  \/ \E t \in ScopeTargets : LocalWrite(t[1], t[2])
  \/ \E t \in ScopeTargets : LocalRemove(t[1], t[2])

SpecScope == InitScope /\ [][NextScope]_vars

\* --------------------------- a manifest build that times out (SpecStale)
\* the synced container of SpecScope; syncs whose manifest build may exit
\* non-zero or outlast its 20 s, and the agent's changes
NextStale ==
  \/ \E buildOk \in BOOLEAN, failAt \in {"none", BuildTimeout} :
       SyncToR2(TRUE, buildOk, failAt)
  \/ \E t \in ScopeTargets : LocalWrite(t[1], t[2])
  \/ \E t \in ScopeTargets : LocalRemove(t[1], t[2])

SpecStale == InitScope /\ [][NextStale]_vars

\* ------------------------------------ the admin object API (SpecAdmin)
\* R2_ALLOWED_PREFIXES: the top-level prefixes isValidR2Path accepts
R2_ALLOWED_PREFIXES == {"clawdbot", "skills", "workspace-core"}
isValidR2Path(d) == d \in R2_ALLOWED_PREFIXES
\* the object names the administrator works on (for an upload
\* file.name.split('/').pop())
AdminNames == {"clawdbot.json", "s1.md"}

\* DELETE /r2/object?key=d/n: bucket.delete(key), also of a missing key
AdminDeleteObject(d, n) ==
  /\ isValidR2Path(d)
  /\ rem' = [rem EXCEPT ![d][n] = NoFile]
  /\ hist' = Record(hist, Result("admin-delete", TRUE, "", d, 0))
  /\ calls' = <<Call("bucket.delete", "ok")>>
  /\ UNCHANGED <<loc, rdirs, linked, creds, mounted, clock, edits, restarts, faults,
                 restoredHere, installed, inflight>>

\* POST /r2/upload with prefix d/ and a file named n: bucket.put(key, file)
AdminUpload(d, n, content) ==
  /\ isValidR2Path(d)
  /\ edits < MaxEdits
  /\ clock + 1 <= MaxClock
  /\ rem' = [rem EXCEPT ![d][n] = UserFile(content, clock)]
  /\ rdirs' = rdirs \cup {d}
  /\ clock' = clock + 1
  /\ edits' = edits + 1
  /\ hist' = Record(hist, Result("admin-upload", TRUE, "", d, 0))
  /\ calls' = <<Call("bucket.put", "ok")>>
  /\ UNCHANGED <<loc, linked, creds, mounted, restarts, faults, restoredHere,
                 installed, inflight>>

\* the synced container of SpecScope with syncs that meet no failure, the
\* agent's changes, and an administrator deleting and uploading objects
NextAdmin ==
  \/ SyncToR2(TRUE, TRUE, "none")
  \/ \E t \in ScopeTargets : LocalWrite(t[1], t[2])
  \/ \E d \in RemoteDirs, n \in AdminNames : AdminDeleteObject(d, n)
  \/ \E d \in RemoteDirs, n \in AdminNames, content \in 1..MaxContent :
       AdminUpload(d, n, content)

SpecAdmin == InitScope /\ [][NextAdmin]_vars

\* ------------------- syncs over a bucket the administrator edits (SpecBackup)
\* the restored container of SpecConc; syncs with failing commands, the
\* agent's changes and object deletions through the admin API
NextBackup ==
  \/ \E mountOk \in BOOLEAN, buildOk \in BOOLEAN, failAt \in SyncFailAts :
       SyncToR2(mountOk, buildOk, failAt)
  \/ \E t \in EditTargets : LocalWrite(t[1], t[2])
  \/ \E d \in RemoteDirs, n \in AdminNames : AdminDeleteObject(d, n)

SpecBackup == InitConc /\ [][NextBackup]_vars

\* ------------------------- a restore that overlaps syncs (SpecOverlap)
\* what one command of the restore script does to the local filesystem
RestoreOneStep(l, r, dirs, src, step, now) ==
  IF step = "config" THEN [l EXCEPT !["clawdbot"] = RestoreConfig(@, r, src, now)]
  ELSE IF step = "skills" THEN
    (IF "skills" \in dirs THEN [l EXCEPT !["skills"] = Rsync(r["skills"], @, Names, now)] ELSE l)
  ELSE IF step = "workspace" THEN [l EXCEPT !["clawd"] = RestoreWorkspace(@, r, dirs, now)]
  ELSE IF step = "lastsync" THEN
    (IF Present(r["root"][".last-sync"])
     THEN [l EXCEPT !["clawdbot"][".last-sync"] = CpF(r["root"][".last-sync"], now)]
     ELSE l)
  ELSE [l EXCEPT !["clawdbot"][".restored-from-r2"] = TimestampFile(now)]

\* a call of restoreFromR2 under way: the command of the script that runs
\* next ("baseline": the script is done) and the layout the probe found
RestoreAt(step, src) == [call |-> "restore", at |-> step, src |-> src]
RestoresUnderWay == {p \in inflight : p.call = "restore"}
StepAfter(step) ==
  IF step = "marker" THEN "baseline" ELSE RestoreSteps[IndexOf(RestoreSteps, step) + 1]

\* restoreFromR2 up to startProcess(restoreCmdParts.join('; '))
RestoreBegin ==
  /\ RestoresUnderWay = {}
  /\ creds
  /\ ResolveLayout(rem) # "none"
  /\ mounted' = TRUE
  /\ inflight' = inflight \cup {RestoreAt("config", ResolveLayout(rem))}
  /\ calls' = <<Call("mountR2Storage", "ok"), Call("layoutProbe", "ok")>>
  /\ UNCHANGED <<loc, rem, rdirs, linked, creds, clock, edits, restarts, faults,
                 restoredHere, hist, installed>>

\* the restore script runs its next command
RestoreScriptStep ==
  \E p \in RestoresUnderWay :
    /\ p.at # "baseline"
    /\ clock + 1 <= MaxClock
    /\ loc' = RestoreOneStep(loc, rem, rdirs, p.src, p.at, clock)
    /\ clock' = clock + 1
    /\ inflight' = (inflight \ {p}) \cup {RestoreAt(StepAfter(p.at), p.src)}
    /\ UNCHANGED <<rem, rdirs, linked, creds, mounted, edits, restarts, faults, calls,
                   restoredHere, hist, installed>>

\* the script has ended: manifest baselining and the return of restoreFromR2
RestoreReturn ==
  \E p \in RestoresUnderWay :
    /\ p.at = "baseline"
    /\ clock + 1 <= MaxClock
    /\ LET cfgDir == ResolveConfigDir(loc)
           b == IF cfgDir = "none" THEN [loc |-> loc, rem |-> rem]
                ELSE BaselineManifest(WriteManifest(loc, cfgDir, clock), rem, clock)
       IN /\ loc' = b.loc
          /\ rem' = b.rem
          /\ hist' = Record(hist, Result("restore", TRUE, "", "none", ReadLastSync(b.rem)))
    /\ clock' = clock + 1
    /\ inflight' = inflight \ {p}
    /\ restoredHere' = TRUE
    /\ calls' = <<Call("restoreCmd", "ok"), Call("resolveConfigDir", "ok"),
                  Call("catLastSync", "ok")>>
    /\ UNCHANGED <<rdirs, linked, creds, mounted, edits, restarts, faults, installed>>

\* the bucket a container left after a restore and a complete sync, in front
\* of that container (with changes of the agent) or of a fresh one
InitOverlap ==
  /\ linked = FALSE
  /\ creds = TRUE
  /\ mounted = TRUE
  /\ \E fresh \in BOOLEAN, added \in SUBSET ScopeAddable :
       LET l0 == [d \in LocalDirs |-> [n \in Names |->
                    IF <<d, n>> \in ScopeBase THEN UserFile(1, 1) ELSE NoFile]]
           lm == WriteManifest(l0, "clawdbot", 1)
       IN /\ rem = SyncCmd(lm, Seed(SeedEmpty), "clawdbot", "none", 1)
          /\ (fresh => added = {})
          /\ loc = IF fresh THEN [d \in LocalDirs |-> EmptyTree]
                   ELSE [d \in LocalDirs |-> [n \in Names |->
                           IF <<d, n>> \in added THEN UserFile(1, 1) ELSE lm[d][n]]]
          /\ restoredHere = ~fresh
  /\ rdirs = SyncCmdDirs({"root"}, "none")
  /\ clock = 2
  /\ edits = 0
  /\ restarts = 0
  /\ faults = 0
  /\ calls = <<>>
  /\ hist = <<>>
  /\ installed = ImageBinaries
  /\ inflight = {}

NextOverlap ==
  \/ RestoreBegin
  \/ RestoreScriptStep
  \/ RestoreReturn
  \/ SyncToR2(TRUE, TRUE, "none")

SpecOverlap == InitOverlap /\ [][NextOverlap]_vars

\* ------------------------------------------ start-moltbot.sh (startup)
\* The restore section of the container's start script.  BACKUP_DIR is the
\* mount point of the bucket, CONFIG_DIR is /root/.clawdbot, the skills
\* live in /root/clawd/skills and the workspace in /root/clawd.

\* [ -f path ]
IsRegularFile(f) == Present(f) /\ ~f.dir
\* [ -d dir ] && [ "$(ls -A dir)" ]
NonEmptyDir(r, dirs, d) == d \in dirs /\ \E n \in Names : Present(r[d][n])

\* what the script finds under BACKUP_DIR: the bucket when it is mounted,
\* an empty directory otherwise
BackupDir(r, mt) == IF mt THEN r ELSE [d \in RemoteDirs |-> EmptyTree]

\* date -d "$TIME" +%s 2>/dev/null || echo "0"
EpochOf(f) == IF IsDateLike(f) THEN f.c ELSE 0

\* mutant: -ge instead of -gt
should_restore_from_r2_OrEqual(l, r) ==
  LET R2_SYNC_FILE == r["root"][".last-sync"]
      LOCAL_SYNC_FILE == l["clawdbot"][".last-sync"]
  IN IF ~IsRegularFile(R2_SYNC_FILE) THEN FALSE
     ELSE IF ~IsRegularFile(LOCAL_SYNC_FILE) THEN TRUE
     ELSE EpochOf(R2_SYNC_FILE) >= EpochOf(LOCAL_SYNC_FILE)

should_restore_from_r2(l, r) ==
  LET R2_SYNC_FILE == r["root"][".last-sync"]
      LOCAL_SYNC_FILE == l["clawdbot"][".last-sync"]
  IN IF ~IsRegularFile(R2_SYNC_FILE) THEN FALSE
     ELSE IF ~IsRegularFile(LOCAL_SYNC_FILE) THEN TRUE
     ELSE EpochOf(R2_SYNC_FILE) > EpochOf(LOCAL_SYNC_FILE)

\* cp -a src/. dst/: every file of the source replaces the file of that
\* name and keeps its own mtime; nothing is deleted
CpA(src, dst) == [n \in Names |-> IF Present(src[n]) THEN src[n] ELSE dst[n]]

\* lines 80-100: the nested backup (clawdbot/), else the flat one (the
\* bucket's root, whose subdirectories land in CONFIG_DIR under names the
\* sync engine never reads), then the timestamp of the version restored
StartupConfig(l, r, now) ==
  LET src == IF IsRegularFile(r["clawdbot"]["clawdbot.json"]) THEN "clawdbot"
             ELSE IF IsRegularFile(r["root"]["clawdbot.json"]) THEN "root"
             ELSE "none"
  IN IF src # "none" /\ should_restore_from_r2(l, r)
     THEN [l EXCEPT !["clawdbot"] =
             [CpA(r[src], @) EXCEPT ![".last-sync"] = CpF(r["root"][".last-sync"], now)]]
     ELSE l

\* lines 102-111
StartupSkills(l, r, dirs) ==
  IF NonEmptyDir(r, dirs, "skills") /\ should_restore_from_r2(l, r)
  THEN [l EXCEPT !["skills"] = CpA(r["skills"], @)]
  ELSE l

\* line 115: the local workspace is missing or empty, or lacks a core file
WorkspaceIncomplete(ws) ==
  \/ \A n \in Names : ~Present(ws[n])
  \/ ~IsRegularFile(ws["USER.md"])
  \/ ~IsRegularFile(ws["SOUL.md"])
  \/ ~IsRegularFile(ws["MEMORY.md"])

\* lines 113-125: rsync -r --no-times --delete of workspace-core/ with
\* .git, skills and node_modules excluded (none of them is in the
\* workspace tree of this model: the skills are a tree of their own)
StartupWorkspace(l, r, dirs, now) ==
  IF /\ NonEmptyDir(r, dirs, "workspace-core")
     /\ (should_restore_from_r2(l, r) \/ WorkspaceIncomplete(l["clawd"]))
  THEN [l EXCEPT !["clawd"] = Rsync(r["workspace-core"], @, Names, now)]
  ELSE l

\* the sections that copied, for the log
StartupSections(l0, l1, l2, l3) ==
  (IF l1 # l0 THEN <<Call("restore-config", "ok")>> ELSE <<>>)
    \o (IF l2 # l1 THEN <<Call("restore-skills", "ok")>> ELSE <<>>)
    \o (IF l3 # l2 THEN <<Call("restore-workspace", "ok")>> ELSE <<>>)

\* one run of the script up to line 125
StartMoltbot ==
  /\ restarts < MaxRestarts
  /\ clock + 1 <= MaxClock
  /\ LET r == BackupDir(rem, mounted)
         dirs == IF mounted THEN rdirs ELSE {}
         l1 == StartupConfig(loc, r, clock)
         l2 == StartupSkills(l1, r, dirs)
         l3 == StartupWorkspace(l2, r, dirs, clock)
     IN /\ loc' = l3
        /\ calls' = StartupSections(loc, l1, l2, l3)
  /\ linked' = TRUE
  /\ clock' = clock + 1
  /\ restarts' = restarts + 1
  /\ hist' = Record(hist, Result("startup", TRUE, "", "none", 0))
  /\ UNCHANGED <<rem, rdirs, creds, mounted, edits, faults, restoredHere, installed,
                 inflight>>

\* the local timestamps a container can start with (none, a date, not a
\* date) and the remote ones, with the backups the script looks for
StartupStamp(kind) ==
  IF kind = "none" THEN NoFile
  ELSE IF kind = "old" THEN TimestampFile(1)
  ELSE IF kind = "new" THEN TimestampFile(2)
  ELSE UserFile(1, 1)

InitStartup ==
  /\ \E lts \in {"none", "old", "new", "unreadable"},
        rts \in {"none", "old", "new", "unreadable"},
        layout \in {"clawdbot", "root", "none"}, rskills \in BOOLEAN, rws \in BOOLEAN,
        lcore \in SUBSET {"USER.md", "SOUL.md", "MEMORY.md"}, lother \in BOOLEAN :
       /\ loc = [d \in LocalDirs |-> [n \in Names |->
                   IF d = "clawdbot" /\ n = ".last-sync" THEN StartupStamp(lts)
                   ELSE IF d = "clawdbot" /\ n = "clawdbot.json" THEN UserFile(1, 1)
                   ELSE IF d = "skills" /\ n = "s1.md" THEN UserFile(1, 1)
                   ELSE IF d = "clawd" /\ n \in lcore THEN UserFile(1, 1)
                   ELSE IF d = "clawd" /\ n = "scratch/tmp.bin" /\ lother THEN UserFile(1, 1)
                   ELSE NoFile]]
       /\ rem = [d \in RemoteDirs |-> [n \in Names |->
                   IF d = "root" /\ n = ".last-sync" THEN StartupStamp(rts)
                   ELSE IF d = layout /\ n = "clawdbot.json" THEN UserFile(2, 1)
                   ELSE IF d = "skills" /\ n = "s1.md" /\ rskills THEN UserFile(2, 1)
                   ELSE IF d = "workspace-core" /\ n \in workspaceRootFiles /\ rws
                     THEN UserFile(2, 1)
                   ELSE NoFile]]
       /\ rdirs = {"root"} \cup (IF layout = "clawdbot" THEN {"clawdbot"} ELSE {})
                    \cup (IF rskills THEN {"skills"} ELSE {})
                    \cup (IF rws THEN {"workspace-core"} ELSE {})
  /\ linked = FALSE
  /\ creds = TRUE
  /\ mounted \in BOOLEAN
  /\ clock = 3
  /\ edits = 0
  /\ restarts = 0
  /\ faults = 0
  /\ calls = <<>>
  /\ restoredHere = FALSE
  /\ hist = <<>>
  /\ installed = ImageBinaries
  /\ inflight = {}

NextStartup == StartMoltbot

SpecStartup == InitStartup /\ [][NextStartup]_vars

\* ------------------------------------------- waitForProcess (utils.ts)
\* One call of waitForProcess(proc, timeoutMs, pollIntervalMs), step by
\* step.  The call is the record in inflight: status is proc.status, which
\* only the sandbox changes; at is the position in the function ("test":
\* about to evaluate the loop condition, "sleep": awaiting the timer,
\* "returned"); every timer that fired is appended to calls.
ProcStatuses == {"running", "completed", "failed"}

\* Math.ceil(timeoutMs / pollIntervalMs), for a positive interval
maxAttempts(timeoutMs, pollIntervalMs) == (timeoutMs + pollIntervalMs - 1) \div pollIntervalMs

\* mutant: the loop tests the status alone
LoopCondition_StatusOnly(w) == w.status = "running"

\* proc.status === 'running' && attempts < maxAttempts
LoopCondition(w) ==
  w.status = "running" /\ w.attempts < maxAttempts(w.timeoutMs, w.pollIntervalMs)

\* the loop condition is evaluated: the body starts its timer, or the
\* function returns (the promise resolves)
WaitTest ==
  \E w \in inflight :
    /\ w.at = "test"
    /\ IF LoopCondition(w)
       THEN /\ inflight' = (inflight \ {w}) \cup {[w EXCEPT !.at = "sleep"]}
            /\ hist' = hist
       ELSE /\ inflight' = (inflight \ {w}) \cup {[w EXCEPT !.at = "returned"]}
            /\ hist' = Record(hist, Result("waitForProcess", TRUE, "", "none", 0))
    /\ UNCHANGED <<loc, rem, rdirs, linked, creds, mounted, clock, edits, restarts, faults,
                   calls, restoredHere, installed>>

\* await new Promise(r => setTimeout(r, pollIntervalMs)); attempts++
WaitTimerFires ==
  \E w \in inflight :
    /\ w.at = "sleep"
    /\ inflight' = (inflight \ {w})
                     \cup {[w EXCEPT !.at = "test", !.attempts = w.attempts + 1]}
    /\ calls' = Append(calls, Call("setTimeout", "fired"))
    /\ UNCHANGED <<loc, rem, rdirs, linked, creds, mounted, clock, edits, restarts, faults,
                   restoredHere, hist, installed>>

\* the sandbox: the process ends while the caller waits
ProcessEnds(status) ==
  \E w \in inflight :
    /\ w.status = "running" /\ w.at # "returned"
    /\ status # "running"
    /\ inflight' = (inflight \ {w}) \cup {[w EXCEPT !.status = status]}
    /\ UNCHANGED <<loc, rem, rdirs, linked, creds, mounted, clock, edits, restarts, faults,
                   calls, restoredHere, hist, installed>>

InitWait ==
  /\ loc = [d \in LocalDirs |-> EmptyTree]
  /\ rem = Seed(SeedEmpty)
  /\ rdirs = {"root"}
  /\ linked = FALSE
  /\ creds = TRUE
  /\ mounted = TRUE
  /\ clock = 2
  /\ edits = 0
  /\ restarts = 0
  /\ faults = 0
  /\ calls = <<>>
  /\ restoredHere = FALSE
  /\ hist = <<>>
  /\ installed = ImageBinaries
  /\ \E status \in ProcStatuses, timeoutMs \in 0..MaxTimeoutMs,
        pollIntervalMs \in 1..MaxPollIntervalMs :
       inflight = {[call |-> "waitForProcess", status |-> status, timeoutMs |-> timeoutMs,
                    pollIntervalMs |-> pollIntervalMs, attempts |-> 0, at |-> "test"]}

NextWait ==
  \/ WaitTest
  \/ WaitTimerFires
  \/ \E status \in ProcStatuses : ProcessEnds(status)

SpecWait == InitWait /\ [][NextWait]_vars

\* the event loop runs a continuation that is ready and fires a timer that
\* is due; nothing obliges the process to end
SpecWaitLive == SpecWait /\ WF_vars(WaitTest) /\ WF_vars(WaitTimerFires)

\* =================================================================
\* Properties
\* =================================================================
Last == hist[Len(hist)]
Prev == hist[Len(hist) - 1]
LastIs(op) == Len(hist) > 0 /\ Last.op = op
\* this step is a call of sync() / of restore
SyncStep == clock' = clock + 2 /\ hist'[Len(hist')].op = "sync"
RestoreStep == clock' = clock + 2 /\ hist'[Len(hist')].op = "restore"

MarkerPresent == loc["clawdbot"][".restored-from-r2"].m > 0
RemoteTimestamp == rem["root"][".last-sync"]
RemoteManifest == rem["root"]["manifest.json"]

\* C1: a sync() called while the restore marker is absent returns a failure
\* (the error 'Restore required before backup' when credentials are present
\* and the mount succeeded) and leaves the remote store untouched: no mirror
\* copy, no manifest upload, no timestamp write.
C1_NoBackupWithoutMarker ==
  [][ (SyncStep /\ ~MarkerPresent)
        => /\ ~hist'[Len(hist')].success
           /\ rem' = rem
           /\ rdirs' = rdirs
           /\ (creds /\ mounted'
                 => hist'[Len(hist')].error = "Restore required before backup") ]_vars

\* C1 witness: a sync was refused for want of the marker although a local
\* config file exists and the remote already holds a backup
C1_Witness ==
  /\ LastIs("sync")
  /\ Last.error = "Restore required before backup"
  /\ ~MarkerPresent
  /\ loc["clawdbot"]["clawdbot.json"].m > 0
  /\ rem["clawdbot"]["clawdbot.json"].m > 0

LocalManifest == LFile(loc, "openclaw", ".sync-manifest.json")
LocalConfigPresent ==
  loc["clawdbot"]["clawdbot.json"].m > 0 \/ LFile(loc, "openclaw", "openclaw.json").m > 0
\* the local config directory sync() reads
ActiveDir ==
  IF LFile(loc, "openclaw", "openclaw.json").m > 0 THEN LDir("openclaw") ELSE "clawdbot"

\* dst holds, for every name in scope, exactly the content src holds
SameContent(dst, src, scope) ==
  \A n \in scope :
    /\ (dst[n].m > 0) = (src[n].m > 0)
    /\ dst[n].s = src[n].s /\ dst[n].c = src[n].c /\ dst[n].man = src[n].man

\* the three remote trees mirror the local ones in the backed-up scope
CopiesMirrored ==
  /\ SameContent(rem["openclaw"], loc[ActiveDir], Names \ {"gw.log"})
  /\ SameContent(rem["skills"], loc["skills"], Names)
  /\ SameContent(rem["workspace"], loc["clawd"], {"IDENTITY.md", "memory/a.txt"})

\* C2: end to end from a fresh container (no marker, no local state) with an
\* empty remote store: restore returns 'no backup found', and the first
\* sync() after a local config file has been seeded returns success, writes
\* a new remote timestamp and leaves a remote manifest equal to the local one
\* (barring a failure of the mount or of the copy command itself).
C2_FreshContainerFirstBackup ==
  [][ ( /\ Len(hist) = 2
        /\ Prev.op = "restore" /\ Prev.error = "No backup found in R2"
        /\ Last.op = "edit"
        /\ LocalConfigPresent
        /\ SyncStep
        /\ hist'[Len(hist')].error
             \notin {"Failed to mount R2 storage", "Sync failed", "Sync error"} )
      => /\ hist'[Len(hist')].success
         /\ RemoteTimestamp'.m = clock + 1
         /\ RemoteManifest'.m > 0
         /\ RemoteManifest'.man = LFile(loc', "openclaw", ".sync-manifest.json").man ]_vars

\* C3: a slow-path sync() returns success only if the three mirror copies,
\* the manifest upload and the timestamp write of that same attempt all
\* completed, whatever the remote store held before.
C3_SuccessMeansCommitted ==
  (LastIs("sync") /\ Last.path = "slow" /\ Last.success)
    => /\ RemoteTimestamp.m = clock - 1
       /\ CopiesMirrored
       /\ (LocalManifest.m > 0 => RemoteManifest.man = LocalManifest.man /\ RemoteManifest.m = clock - 1)

C5_FastPathWritesNothing ==
  [][ ( /\ SyncStep
        /\ LFile(loc', "openclaw", ".sync-manifest.json").m = clock
        /\ RemoteManifest.m > 0
        /\ LFile(loc', "openclaw", ".sync-manifest.json").man = RemoteManifest.man )
      => /\ rem' = rem
         /\ rdirs' = rdirs
         /\ hist'[Len(hist')].success ]_vars

\* C5 witness: a sync found a non-empty manifest identical to the remote one
C5_Witness ==
  /\ LastIs("sync") /\ Last.success /\ Last.path = "fast"
  /\ LocalManifest.m = clock - 2
  /\ LocalManifest.man = RemoteManifest.man
  /\ Len(LocalManifest.man) >= 3

\* the last operation was a restore whose script ran every step
RestoreCompleted(r) == r.op = "restore" /\ r.success /\ r.path = "none"

\* C6: after a successful restore, with no local change in between, the
\* first sync() takes the fast path: it executes no mirror copy.
C6_FirstSyncAfterRestoreIsFast ==
  ( /\ Len(hist) >= 2
    /\ RestoreCompleted(Prev)
    /\ Last.op = "sync" /\ Last.success
    /\ LocalManifest.m = clock - 2 )
  => Last.path = "fast"

\* C7: two consecutive manifest builds over a filesystem nobody else changed
\* are identical, so of two consecutive sync() calls with no user change in
\* between the second takes the fast path.
C7_ConsecutiveSyncsSecondIsFast ==
  [][ ( /\ LastIs("sync") /\ Last.success
        /\ LocalManifest.m = clock - 2
        /\ (Last.path = "fast" \/ RemoteTimestamp.m = clock - 1)
        /\ SyncStep /\ hist'[Len(hist')].success
        /\ LFile(loc', "openclaw", ".sync-manifest.json").m = clock )
      => hist'[Len(hist')].path = "fast" ]_vars

\* C8: the restore marker is present only if a restore ran all its copy
\* steps to completion in this container; after a restore attempt that
\* failed before the marker-writing step it is absent.
C8_MarkerOnlyAfterCompletedRestore ==
  MarkerPresent => restoredHere

\* C9: if a copy step of restore fails, restore returns success=false;
\* restore returns success only when every copy step completed.
C9_RestoreReportsCopyFailure ==
  LastIs("restore") =>
    /\ (Last.path \in {"config", "skills", "workspace"} => ~Last.success)
    /\ (Last.success => Last.path = "none")

\* the local state restore is responsible for: presence, size and content of
\* every file; of the marker only its presence
ContentOf(l) ==
  [d \in LocalDirs |-> [n \in Names |->
     IF n = ".restored-from-r2" THEN <<l[d][n].m > 0, 0, 0, <<>> >>
     ELSE <<l[d][n].m > 0, l[d][n].s, l[d][n].c, l[d][n].man>>]]

\* C10: restoring twice in a row from the same remote state is idempotent:
\* the local state after the second restore equals the one after the first.
C10_RestoreIdempotent ==
  [][ ( /\ LastIs("restore") /\ RestoreCompleted(Last)
        /\ RestoreStep
        /\ RestoreCompleted(hist'[Len(hist')]) )
      => ContentOf(loc') = ContentOf(loc) ]_vars

\* C10 witness: two completed restores in a row, the second one over a
\* local tree that already holds the restored (and renamed) config file
C10_Witness ==
  /\ Len(hist) >= 2
  /\ RestoreCompleted(Prev) /\ RestoreCompleted(Last)
  /\ MarkerPresent
  /\ loc["clawdbot"]["clawdbot.json"].m = clock - 2
  /\ LocalManifest.m > 0

\* the names of the universe outside the workspace whitelist
OutsideWhitelist == Names \ (workspaceRootFiles \cup UnderMemoryOrAssets)

\* C11: a restore never creates, modifies or deletes a local workspace file
\* outside the whitelist, even one the remote workspace lacks, and a sync
\* never creates, modifies or deletes a remote workspace object outside it.
C11_WhitelistFrame ==
  [][ /\ (RestoreStep => \A n \in OutsideWhitelist : loc'["clawd"][n] = loc["clawd"][n])
      /\ (SyncStep => \A n \in OutsideWhitelist :
                        rem'["workspace"][n] = rem["workspace"][n]) ]_vars

\* C11 witness: a completed restore has rewritten IDENTITY.md from a remote
\* workspace that lacks scratch/tmp.bin, and the local scratch/tmp.bin the
\* agent wrote at time 3 is still there
C11_Witness ==
  /\ LastIs("restore") /\ RestoreCompleted(Last)
  /\ "workspace" \in rdirs
  /\ ~Present(rem["workspace"]["scratch/tmp.bin"])
  /\ loc["clawd"]["scratch/tmp.bin"].m = 3
  /\ loc["clawd"]["IDENTITY.md"].m = clock - 2

\* presence, size and content of a file (not its modification time)
Content(f) == <<Present(f), f.s, f.c>>

\* C12: whitelisted workspace files round-trip exactly: after a successful
\* slow-path sync, a restore from the resulting remote leaves every
\* whitelisted workspace file as it was before the sync (same presence, same
\* content), and leaves scratch/tmp.bin untouched.  (sync() itself writes
\* no workspace file, so the tree before the restore is the tree before the
\* sync.)
C12_WorkspaceRoundTrip ==
  [][ ( /\ LastIs("sync") /\ Last.success /\ Last.path = "slow"
        /\ RestoreStep /\ hist'[Len(hist')].success )
      => /\ \A n \in {"IDENTITY.md", "memory/a.txt"} :
              Content(loc'["clawd"][n]) = Content(loc["clawd"][n])
         /\ loc'["clawd"]["scratch/tmp.bin"] = loc["clawd"]["scratch/tmp.bin"] ]_vars

\* the remote paths among the four that exist
PathsPresent == {i \in 1..Len(LayoutPaths) : Present(rem[LayoutPaths[i][1]][LayoutPaths[i][2]])}
\* the highest-priority one
FirstPresent == CHOOSE i \in PathsPresent : \A j \in PathsPresent : i <= j
\* the config files a restore from the layout of path i brings: paths 1 and 2
\* share the current directory, which is mirrored whole
BroughtBy(i) == IF i <= 2 THEN PathsPresent \cap {1, 2} ELSE {i}
\* contents of the config files present locally
LocalConfigContents(l) ==
  {l["clawdbot"][n].c : n \in {x \in {"openclaw.json", "clawdbot.json"} : Present(l["clawdbot"][x])}}

FirstFailing(mountedAfter) ==
  IF ~creds THEN "R2 storage is not configured"
  ELSE IF ~mountedAfter THEN "Failed to mount R2 storage"
  ELSE IF ~MarkerPresent THEN "Restore required before backup"
  ELSE IF ~LocalConfigPresent THEN "Sync aborted: no config file found"
  ELSE ""
\* the checks sync() has evaluated when it reports that error
ChecksUpTo(err) ==
  IF err = "R2 storage is not configured" THEN <<>>
  ELSE IF err = "Failed to mount R2 storage" THEN <<"mountR2Storage">>
  ELSE IF err = "Restore required before backup" THEN <<"mountR2Storage", "hasRestoreMarker">>
  ELSE <<"mountR2Storage", "hasRestoreMarker", "checkConfig">>
CallNames(cs) == [i \in 1..Len(cs) |-> cs[i][1]]

MountStep == clock' = clock + 1 /\ hist'[Len(hist')].op = "mount"
CallsOf(cs, name) == {i \in 1..Len(cs) : cs[i][1] = name}

\* C16: with credentials absent ensureMounted returns mounted=false with the
\* 'not configured' error and makes no invocation at all (no probe process,
\* no mount call, mount table unchanged); sync() and restore return the same
\* error, likewise without any invocation and without touching either side.
C16_NotConfiguredNoInvocation ==
  [][ ~creds =>
        LET r == hist'[Len(hist')]
        IN /\ (MountStep \/ SyncStep \/ RestoreStep)
                => /\ ~r.success
                   /\ r.error = "R2 storage is not configured"
                   /\ calls' = <<>>
                   /\ mounted' = mounted
           /\ (SyncStep \/ RestoreStep) => (loc' = loc /\ rem' = rem /\ rdirs' = rdirs) ]_vars

\* C16 witness: without credentials a sync() and then ensureMounted were
\* called, in a container whose mount table still shows the bucket
C16_Witness ==
  /\ ~creds /\ mounted
  /\ Len(hist) = 2 /\ Prev.op = "sync" /\ Last.op = "mount"
  /\ Prev.error = "R2 storage is not configured"
  /\ Last.error = "R2 storage is not configured"

C18_RecheckOnceNeverThrows ==
  [][ (MountStep /\ creds) =>
        LET r == hist'[Len(hist')]
        IN /\ r.error # "uncaught exception"
           /\ (r.success <=> r.error = "")
           /\ (\E i \in CallsOf(calls', "mountBucket") : calls'[i][2] = "throw")
                => /\ Len(calls') = 3
                   /\ calls'[2][1] = "mountBucket"
                   /\ calls'[3][1] = "isR2Mounted"
                   /\ IF mounted' /\ calls'[3][2] = "ok"
                      THEN r.success
                      ELSE ~r.success /\ r.error = "Failed to mount R2 storage" ]_vars

\* C18 witness: the attach threw after attaching, the second probe found the
\* mount and the call returned mounted=true
C18_Witness ==
  /\ LastIs("mount") /\ Last.success /\ mounted
  /\ Len(calls) = 3 /\ calls[2] = Call("mountBucket", "throw")
  /\ calls[1] = Call("isR2Mounted", "throw")
  /\ Len(hist) = 1

\* C19: every failure of sync() and restore comes back as a structured
\* result with success=false: no exception leaves either operation,
\* whichever process start, wait or log retrieval rejects, and a call in
\* which an invocation threw does not report success.
C19_NoExceptionEscapes ==
  (LastIs("sync") \/ LastIs("restore"))
    => /\ Last.error # "uncaught exception"
       /\ ((\E i \in 1..Len(calls) : calls[i][2] = "throw") => ~Last.success)

\* C20: a sync() or restore whose external process was still running when
\* its timeout elapsed returns a failure; it never reports success for an
\* attempt whose copy process had not completed.
C20_TimeoutIsFailure ==
  ( /\ LastIs("sync") \/ LastIs("restore")
    /\ \E i \in 1..Len(calls) : calls[i][2] = "timeout" )
    => ~Last.success

\* the first installed binary in the order of CLI_BIN_CANDIDATES, the last
\* candidate when none is installed
FirstInstalled ==
  IF \E i \in 1..Len(CLI_BIN_CANDIDATES) : CLI_BIN_CANDIDATES[i] \in installed
  THEN CLI_BIN_CANDIDATES[CHOOSE i \in 1..Len(CLI_BIN_CANDIDATES) :
         /\ CLI_BIN_CANDIDATES[i] \in installed
         /\ \A j \in 1..(i - 1) : CLI_BIN_CANDIDATES[j] \notin installed]
  ELSE CLI_BIN_CANDIDATES[Len(CLI_BIN_CANDIDATES)]
CliStep == hist' # hist /\ hist'[Len(hist')].op = "cli"

\* C21: every site that runs the agent CLI (the shared buildCliCommand, the
\* API routes' builder, the startup script) runs, for every set of installed
\* binaries, the first installed one in the order openclawbot-online,
\* openclaw, clawdbot, and clawdbot when none is installed.
C21_SameBinaryEverywhere ==
  [][ CliStep => calls'[1][2] = FirstInstalled ]_vars

\* C22: within one container at most one sync attempt is in progress at
\* any time, whatever the interleaving of the cron trigger and the admin
\* requests.
C22_AtMostOneAttempt == Cardinality(inflight) <= 1

ConfigNamesLocal(l) ==
  {n \in {"openclaw.json", "clawdbot.json"} : Present(l["clawdbot"][n])}

LocalManifestAfter == loc'[LDir("openclaw")][".sync-manifest.json"]
RemoteManifestAfter == rem'["root"]["manifest.json"]

\* C24: after every successful restore the local manifest file and the
\* remote manifest exist with the same bytes: a remote manifest that
\* existed is unchanged and has overwritten the local one, otherwise the
\* manifest built from the restored trees is the remote manifest.
C24_ManifestsEqualAfterRestore ==
  [][ (RestoreStep /\ hist'[Len(hist')].success)
        => /\ Present(LocalManifestAfter) /\ Present(RemoteManifestAfter)
           /\ Content(LocalManifestAfter) = Content(RemoteManifestAfter)
           /\ LocalManifestAfter.man = RemoteManifestAfter.man
           /\ (Present(RemoteManifest) => RemoteManifestAfter = RemoteManifest) ]_vars

ConfigMirrored == SameContent(rem["openclaw"], loc[ActiveDir], Names \ {"gw.log"})
SkillsMirrored == SameContent(rem["skills"], loc["skills"], Names)
WorkspaceMirrored == SameContent(rem["workspace"], loc["clawd"], {"IDENTITY.md", "memory/a.txt"})
ManifestUploaded ==
  LocalManifest.m > 0 => (RemoteManifest.m > 0 /\ RemoteManifest.man = LocalManifest.man)

\* the order of the slow path: a step has an effect on the remote store only
\* when every step before it has completed
SlowPathInOrder ==
  /\ (rem'["skills"] # rem["skills"] => ConfigMirrored')
  /\ (rem'["workspace"] # rem["workspace"] => ConfigMirrored' /\ SkillsMirrored')
  /\ (RemoteManifest' # RemoteManifest
        => ConfigMirrored' /\ SkillsMirrored' /\ WorkspaceMirrored')
  /\ (RemoteTimestamp' # RemoteTimestamp
        => ConfigMirrored' /\ SkillsMirrored' /\ WorkspaceMirrored' /\ ManifestUploaded')

\* C25: a slow-path sync runs config copy, skills copy, workspace copy,
\* manifest upload and timestamp write in that order, each only after the
\* one before it succeeded; and after a successful slow-path sync the remote
\* manifest is the local manifest that attempt built.
C25_SlowPathOrderAndManifest ==
  [][ (SyncStep /\ hist'[Len(hist')].path = "slow")
        => /\ SlowPathInOrder
           /\ (hist'[Len(hist')].success
                 => /\ LocalManifestAfter.m = clock
                    /\ RemoteManifestAfter.m > 0
                    /\ RemoteManifestAfter.man = LocalManifestAfter.man) ]_vars

\* C26: a restore that fails before its copy phase (credentials missing,
\* mount failed, or none of the layout paths present, reported as 'no backup
\* found') returns a failure, runs no restore command, changes no local
\* file and does not write the restore marker.
C26_EarlyFailureTouchesNothing ==
  [][ (RestoreStep /\ (~creds \/ ~mounted' \/ PathsPresent = {}))
        => LET r == hist'[Len(hist')]
           IN /\ ~r.success
              /\ r.error = (IF ~creds THEN "R2 storage is not configured"
                            ELSE IF ~mounted' THEN "Failed to mount R2 storage"
                            ELSE "No backup found in R2")
              /\ CallsOf(calls', "restoreCmd") = {}
              /\ loc' = loc
              /\ rem' = rem ]_vars

\* C26 witness: a restore on an empty bucket, in a container that holds a
\* config file and no marker, answered 'no backup found'
C26_Witness ==
  /\ LastIs("restore") /\ Last.error = "No backup found in R2"
  /\ creds /\ mounted /\ PathsPresent = {}
  /\ LocalConfigPresent /\ ~MarkerPresent

\* the remote config directory of a directory-style layout
RemoteConfigDir == IF FirstPresent <= 2 THEN "openclaw" ELSE "clawdbot"
\* the files the engine itself adds to the local config directory
EngineFiles == {".restored-from-r2", ".last-sync"}

\* C27: after a successful restore from a directory-style layout the local
\* config directory mirrors the remote one: every local config file absent
\* remotely is gone, every remote config file is present locally with the
\* remote content, and the only other local files are the restore marker
\* and the timestamp copy.
C27_ConfigMirrorRemoteWins ==
  [][ ( /\ RestoreStep /\ hist'[Len(hist')].success
        /\ PathsPresent # {} /\ FirstPresent <= 3 )
        => \A n \in Names \ EngineFiles :
             /\ Present(loc'["clawdbot"][n]) = Present(rem[RemoteConfigDir][n])
             /\ Content(loc'["clawdbot"][n]) = Content(rem[RemoteConfigDir][n]) ]_vars

\* the restore script got past its workspace step
WorkspaceStepRan(r) == r.op = "restore" /\ r.success /\ r.path \in {"none", "lastsync", "marker"}

\* C28: the workspace step of a restore reads exactly one remote prefix:
\* workspace/ if that directory exists, otherwise workspace-core/ if it
\* exists. The whitelisted local files are afterwards those of that one
\* prefix (files it lacks are gone, nothing is taken from the other prefix);
\* with neither prefix the local workspace is left as it was.
C28_OneWorkspacePrefix ==
  [][ (RestoreStep /\ WorkspaceStepRan(hist'[Len(hist')]))
        => IF "workspace" \in rdirs
           THEN SameContent(loc'["clawd"], rem["workspace"], PrefixNames)
           ELSE IF "workspace-core" \in rdirs
           THEN SameContent(loc'["clawd"], rem["workspace-core"], PrefixNames)
           ELSE \A n \in PrefixNames : loc'["clawd"][n] = loc["clawd"][n] ]_vars

\* C28 witness: both prefixes exist, workspace/ holds IDENTITY.md only and
\* workspace-core/ holds memory/a.txt; after the restore the container has
\* the IDENTITY.md of workspace/ and no memory/a.txt
C28_Witness ==
  /\ LastIs("restore") /\ RestoreCompleted(Last)
  /\ {"workspace", "workspace-core"} \subseteq rdirs
  /\ Present(rem["workspace"]["IDENTITY.md"]) /\ ~Present(rem["workspace"]["memory/a.txt"])
  /\ Present(rem["workspace-core"]["memory/a.txt"])
  /\ loc["clawd"]["IDENTITY.md"].c = 1
  /\ ~Present(loc["clawd"]["memory/a.txt"])

\* this step is a run of the manifest script
ManifestStep == clock' = clock + 1 /\ hist'[Len(hist')].op = "manifest"
\* the directory an entry's category was read from, for the run recorded in r
CategoryTree(l, r, prefix) ==
  IF prefix = "openclaw" THEN l[LDir(r.path)]
  ELSE IF prefix = "skills" THEN l["skills"]
  ELSE l["clawd"]

InSyncScope(l, cfgDir) ==
  LET RegularFiles(tree, scope) == {x \in scope : Present(tree[x]) /\ ~tree[x].dir}
  IN {<<"openclaw", n>> : n \in RegularFiles(l[LDir(cfgDir)], ConfigSyncScope)}
       \cup {<<"skills", n>> : n \in RegularFiles(l["skills"], Names)}
       \cup {<<"workspace", n>> : n \in RegularFiles(l["clawd"], WorkspaceWhitelist)}
\* the paths a manifest lists
ManifestPaths(man) == {<<man[i][1], man[i][2]>> : i \in 1..Len(man)}
\* this sync built its manifest
BuiltManifest == \E i \in 1..Len(calls') : calls'[i] = Call("buildManifest", "ok")
\* no file of the sync scope was added, removed or changed since it was last
\* copied: the remote side has it exactly as the container has it
NothingToCopy(l, r, cfgDir) ==
  /\ SameContent(r["openclaw"], l[LDir(cfgDir)], ConfigSyncScope \ {".sync-manifest.json"})
  /\ SameContent(r["skills"], l["skills"], Names)
  /\ SameContent(r["workspace"], l["clawd"], WorkspaceWhitelist)

\* C30: the manifest a sync builds has an entry for every file the slow
\* path would copy, and a file of that scope that was added, removed or
\* changed since the syncs last copied it makes the sync take the slow path:
\* the fast path is taken only when there is nothing to copy.
C30_ChangeForcesSlowPath ==
  [][ SyncStep =>
        /\ BuiltManifest =>
             InSyncScope(loc, SyncConfigDir(loc)) \subseteq ManifestPaths(LocalManifestAfter.man)
        /\ hist'[Len(hist')].path = "fast" => NothingToCopy(loc, rem, SyncConfigDir(loc)) ]_vars

\* the files the engine writes for its own bookkeeping
BookkeepingFiles == {".sync-manifest.json", ".restored-from-r2", ".last-sync"}

\* C31: no manifest a sync or a restore leaves at the local manifest path
\* has an entry for the local manifest file, the restore marker or the
\* local timestamp copy, whichever directory is the config directory and
\* whether or not /root/.openclaw is the symlink.
C31_NoBookkeepingEntries ==
  [][ (SyncStep \/ RestoreStep) =>
        \A i \in 1..Len(LocalManifestAfter.man) :
          ~( /\ LocalManifestAfter.man[i][1] = "openclaw"
             /\ LocalManifestAfter.man[i][2] \in BookkeepingFiles ) ]_vars

\* C32: a sync takes the fast path only on a manifest built from the
\* current local state in this attempt: whenever the fast path is taken, the
\* local manifest that was compared lists exactly the files the container
\* holds at that moment, also when the build failed or did not finish in
\* time.
C32_FastPathOnFreshManifest ==
  [][ (SyncStep /\ hist'[Len(hist')].path = "fast")
        => LocalManifestAfter.man = BuildManifest(loc, SyncConfigDir(loc)) ]_vars

\* the remote directory a category of the sync scope is copied to
RemoteOf(prefix) == IF prefix = "openclaw" THEN "openclaw" ELSE prefix
LocalOf(prefix, cfgDir) ==
  IF prefix = "openclaw" THEN LDir(cfgDir) ELSE IF prefix = "skills" THEN "skills" ELSE "clawd"

\* C33: whenever a sync takes the fast path, every local file of the sync
\* scope is in the remote store with the same size and content, whatever
\* restores, syncs and admin deletions or uploads came before.
C33_FastPathMeansBackedUp ==
  [][ (SyncStep /\ hist'[Len(hist')].path = "fast")
        => \A e \in InSyncScope(loc, SyncConfigDir(loc)) :
             LET lf == loc[LocalOf(e[1], SyncConfigDir(loc))][e[2]]
                 rf == rem[RemoteOf(e[1])][e[2]]
             IN Present(rf) /\ rf.s = lf.s /\ rf.c = lf.c ]_vars

\* C34: after every successful slow-path sync the layout probe of restore
\* finds a config file in the remote store, and no sync turns a store in
\* which the probe finds one into a store in which it finds none.
C34_BackupStaysResolvable ==
  [][ SyncStep =>
        /\ (hist'[Len(hist')].success /\ hist'[Len(hist')].path = "slow")
             => ResolveLayout(rem') # "none"
        /\ ResolveLayout(rem) # "none" => ResolveLayout(rem') # "none" ]_vars

\* the restore marker is somewhere in the remote store
MarkerInStore(r) == \E d \in RemoteDirs : Present(r[d][".restored-from-r2"])

\* C35: the restore marker is container-local: no step puts a marker file
\* into the remote store, and the local marker appears only in a restore
\* whose script reached its last step, the marker write.
C35_MarkerStaysLocal ==
  [][ /\ ~MarkerInStore(rem) => ~MarkerInStore(rem')
      /\ (~MarkerPresent /\ loc'["clawdbot"][".restored-from-r2"].m > 0)
           => (RestoreStep /\ hist'[Len(hist')].path = "none") ]_vars

\* the mirror copies of this sync ran
SyncCopied == SyncStep /\ \E i \in 1..Len(calls') : calls'[i][1] = "syncCmd"

\* C36: the mirror copies of a sync never run while the script of a restore
\* is between its first and its last command in the same container.
C36_NoCopyDuringRestore ==
  [][ SyncCopied => \A p \in RestoresUnderWay : p.at \in {"config", "baseline"} ]_vars

\* this step is a run of the start script
StartupStep == restarts' = restarts + 1 /\ hist'[Len(hist')].op = "startup"
\* the time a timestamp file records, the epoch when it records none
TimeOf(f) == IF f.s = TsSize THEN f.c ELSE 0
LocalTimestamp == loc["clawdbot"][".last-sync"]
\* the remote timestamp exists, and the local one is absent or older
RemoteIsNewer ==
  /\ Present(RemoteTimestamp)
  /\ (~Present(LocalTimestamp) \/ TimeOf(RemoteTimestamp) > TimeOf(LocalTimestamp))
\* the mounted bucket holds a workspace backup for the script to restore
WorkspaceBackupVisible ==
  mounted /\ "workspace-core" \in rdirs /\ \E n \in Names : Present(rem["workspace-core"][n])
\* the local workspace is missing or empty, or lacks one of the three files
LocalWorkspaceLacking ==
  \E n \in {"USER.md", "SOUL.md", "MEMORY.md"} : ~Present(loc["clawd"][n])

TheWait == CHOOSE w \in inflight : w.call = "waitForProcess"
WaitReturned == TheWait.at = "returned"
\* ceil(timeoutMs / pollIntervalMs): the least k with k * pollIntervalMs >= timeoutMs
PollBound ==
  CHOOSE k \in 0..TheWait.timeoutMs :
    /\ k * TheWait.pollIntervalMs >= TheWait.timeoutMs
    /\ \A j \in 0..(k - 1) : j * TheWait.pollIntervalMs < TheWait.timeoutMs
\* timers that have fired so far
Polls == Len(calls)
\* this step belongs to waitForProcess (not to the sandbox)
WaitStep == TheWait'.at # TheWait.at

\* C38: every call of waitForProcess returns; a call on a process that is
\* not running returns at once, without a single poll; once the status is
\* no longer 'running' the function starts no further wait (it returns when
\* the wait under way, if any, is over); no call polls more than
\* ceil(timeoutMs / pollIntervalMs) times; the function returns normally and
\* no step of it changes the status of the process.
C38_WaitForProcessTerminates ==
  /\ <>WaitReturned
  /\ [](Polls <= PollBound)
  /\ [][ /\ (WaitStep /\ TheWait.status # "running" => TheWait'.at # "sleep")
         /\ (WaitStep /\ TheWait.status # "running" /\ Polls = 0 /\ TheWait.at = "test"
               => WaitReturned' /\ Polls' = 0)
         /\ (WaitStep => TheWait'.status = TheWait.status)
         /\ (WaitReturned' /\ ~WaitReturned
               => hist'[Len(hist')] = Result("waitForProcess", TRUE, "", "none", 0)) ]_vars

\* C38 witness: a call on a process that never left 'running' has returned
\* after exactly ceil(3 / 2) = 2 polls
C38_Witness ==
  /\ WaitReturned
  /\ TheWait.status = "running"
  /\ TheWait.timeoutMs = 3 /\ TheWait.pollIntervalMs = 2
  /\ Polls = 2

====
